---- MODULE Spec2Model ----
(***************************************************************************)
(* Capital-works portal: the new-task form, the task edit modal, the       *)
(* Next.js proxy (forwardRequest) and the record store behind it.          *)
(*                                                                         *)
(* Texts are sequences of one-character strings, so that trim, parseInt    *)
(* and Number are computed character by character as JavaScript does.      *)
(* JavaScript numbers are records: a finite value counted in units of     *)
(* 10^-FracDigits, NaN, or an infinity.  Arithmetic on the finite values   *)
(* is exact; binary rounding of doubles is not modelled.                   *)
(***************************************************************************)
EXTENDS Integers, Sequences, FiniteSets, TLC

\* ------------------------------------------------------------------ bounds
\* Decimal places a finite number carries in the model.
FracDigits == 2
\* Records the store may hold.
MaxRecords == 1
\* Submissions of the new-task form in a run.
MaxPosts == 2
\* PATCH requests the task list sends in a run.
MaxSaves == 1
\* Redirects a page request follows.
MaxRedirects == 3
\* Requests the proxy handles in a run.
MaxRequests == 2

RECURSIVE Pow10(_)
Pow10(n) == IF n <= 0 THEN 1 ELSE 10 * Pow10(n - 1)

Unit == Pow10(FracDigits)

\* ------------------------------------------------------------ JS numbers
NaN == [k |-> "nan", v |-> 0]
PosInf == [k |-> "inf", v |-> 1]
NegInf == [k |-> "inf", v |-> -1]
Fin(v) == [k |-> "fin", v |-> v]
Whole(n) == Fin(n * Unit)
Null == [k |-> "null", v |-> 0]

isNaN(x) == x.k = "nan"
isFinite(x) == x.k = "fin"

\* x < y on JavaScript numbers: false as soon as either side is NaN.
Less(x, y) ==
  CASE x.k = "nan" \/ y.k = "nan" -> FALSE
    [] x.k = "fin" /\ y.k = "fin" -> x.v < y.v
    [] x.k = "inf" /\ y.k = "inf" -> x.v < y.v
    [] x.k = "inf" -> x.v < 0
    [] OTHER -> y.v > 0

\* x - y and x + y where both sides are finite (the only use in the code).
Minus(x, y) == Fin(x.v - y.v)
Plus(x, y) == Fin(x.v + y.v)

IsInteger(x) == x.k = "fin" /\ x.v % Unit = 0

\* ----------------------------------------------------------------- texts
DigitChars == <<"0", "1", "2", "3", "4", "5", "6", "7", "8", "9">>
IsDigit(c) == \E i \in 1..10 : DigitChars[i] = c
DigitVal(c) == (CHOOSE i \in 1..10 : DigitChars[i] = c) - 1
IsSpace(c) == c = " "

RECURSIVE TrimStart(_)
TrimStart(s) ==
  IF s # <<>> /\ IsSpace(Head(s)) THEN TrimStart(Tail(s)) ELSE s

RECURSIVE TrimEnd(_)
TrimEnd(s) ==
  IF s # <<>> /\ IsSpace(s[Len(s)]) THEN TrimEnd(SubSeq(s, 1, Len(s) - 1)) ELSE s

\* String.prototype.trim
Trim(s) == TrimEnd(TrimStart(s))

\* Length of the longest prefix of s made of digits.
RECURSIVE DigitRun(_)
DigitRun(s) ==
  IF s # <<>> /\ IsDigit(Head(s)) THEN 1 + DigitRun(Tail(s)) ELSE 0

\* Value of a sequence of digits.
RECURSIVE DigitsValue(_)
DigitsValue(s) ==
  IF s = <<>> THEN 0
  ELSE 10 * DigitsValue(SubSeq(s, 1, Len(s) - 1)) + DigitVal(s[Len(s)])

Drop(s, n) == SubSeq(s, n + 1, Len(s))
Take(s, n) == SubSeq(s, 1, n)

HasSign(s) == s # <<>> /\ Head(s) \in {"-", "+"}
SignOf(s) == IF s # <<>> /\ Head(s) = "-" THEN -1 ELSE 1
Unsigned(s) == IF HasSign(s) THEN Tail(s) ELSE s

\* Number.parseInt(s, 10): leading white space skipped, an optional sign, then
\* the longest run of digits; whatever follows the run is ignored.  (-0 is 0.)
ParseInt(s) ==
  LET t == Unsigned(TrimStart(s))
      n == DigitRun(t)
  IN IF n = 0 THEN NaN
     ELSE Whole(SignOf(TrimStart(s)) * DigitsValue(Take(t, n)))

InfinityText == <<"I", "n", "f", "i", "n", "i", "t", "y">>

\* m * 10^e in units of 10^-FracDigits (e may be negative); the texts of the
\* model never carry more than FracDigits decimal places.
Scaled(m, e) ==
  IF e + FracDigits >= 0 THEN m * Pow10(e + FracDigits)
  ELSE m \div Pow10(-(e + FracDigits))

\* The StrDecimalLiteral grammar behind Number(string), read one character
\* at a time:  digits [. [digits]] [e [sign] digits]  |  . digits [e [sign] digits]
\* mant: the digits read so far as one number; nd: how many; nf: how many of
\* them after the point; es, ev: sign and value of the exponent.
DecimalStart ==
  [phase |-> "int", mant |-> 0, nd |-> 0, nf |-> 0, es |-> 1, ev |-> 0]

DecimalStep(st, c) ==
  CASE st.phase = "bad" -> st
    [] IsDigit(c) /\ st.phase = "int" ->
         [st EXCEPT !.mant = 10 * @ + DigitVal(c), !.nd = @ + 1]
    [] IsDigit(c) /\ st.phase = "frac" ->
         [st EXCEPT !.mant = 10 * @ + DigitVal(c), !.nd = @ + 1, !.nf = @ + 1]
    [] IsDigit(c) /\ st.phase \in {"e", "sign", "exp"} ->
         [st EXCEPT !.ev = 10 * @ + DigitVal(c), !.phase = "exp"]
    [] c = "." /\ st.phase = "int" -> [st EXCEPT !.phase = "frac"]
    [] c \in {"e", "E"} /\ st.phase \in {"int", "frac"} /\ st.nd > 0 ->
         [st EXCEPT !.phase = "e"]
    [] c \in {"+", "-"} /\ st.phase = "e" ->
         [st EXCEPT !.phase = "sign", !.es = IF c = "-" THEN -1 ELSE 1]
    [] OTHER -> [st EXCEPT !.phase = "bad"]

RECURSIVE DecimalScan(_, _)
DecimalScan(t, st) ==
  IF t = <<>> THEN st ELSE DecimalScan(Tail(t), DecimalStep(st, Head(t)))

DecimalResult(st) ==
  IF st.phase \in {"bad", "e", "sign"} \/ st.nd = 0 THEN NaN
  ELSE Fin(Scaled(st.mant, st.es * st.ev - st.nf))

DecimalValue(t) == DecimalResult(DecimalScan(t, DecimalStart))

\* Number(s): white space trimmed, the empty text is 0, an optional sign,
\* "Infinity", or a decimal literal; anything else is NaN.
ToNumber(s) ==
  LET t == Trim(s)
      u == Unsigned(t)
      d == DecimalValue(u)
  IN IF t = <<>> THEN Whole(0)
     ELSE IF u = InfinityText THEN (IF SignOf(t) < 0 THEN NegInf ELSE PosInf)
     ELSE IF d.k = "fin" THEN Fin(SignOf(t) * d.v)
     ELSE NaN

\* Decimal digits of a natural number.
RECURSIVE NatText(_)
NatText(n) ==
  IF n < 10 THEN <<DigitChars[n + 1]>>
  ELSE NatText(n \div 10) \o <<DigitChars[(n % 10) + 1]>>

\* The FracDigits fraction digits of f, without trailing zeros.
RECURSIVE FracText(_, _)
FracText(f, width) ==
  IF f = 0 THEN <<>>
  ELSE <<DigitChars[(f \div Pow10(width - 1)) + 1]>>
         \o FracText(f % Pow10(width - 1), width - 1)

\* String(x) for a number: shortest decimal form, no exponent in the range
\* of the model (below 1e21 and at least 1e-6).
NumberToString(x) ==
  CASE x.k = "nan" -> <<"N", "a", "N">>
    [] x.k = "inf" -> (IF x.v < 0 THEN <<"-">> ELSE <<>>) \o InfinityText
    [] OTHER ->
         LET a == IF x.v < 0 THEN -x.v ELSE x.v
             frac == FracText(a % Unit, FracDigits)
         IN (IF x.v < 0 THEN <<"-">> ELSE <<>>)
              \o NatText(a \div Unit)
              \o (IF frac = <<>> THEN <<>> ELSE <<".">> \o frac)


\* ------------------------------------------------------------ form fields
intFields == <<"number_of_works", "works_completed">>

floatFields ==
  <<"estimate_amount", "agreement_amount", "exp_upto_31_03_2025",
    "exp_upto_last_month", "exp_during_this_month">>

Range(q) == {q[i] : i \in DOMAIN q}

NumericFields == Range(intFields) \cup Range(floatFields)
RawFields == {"sub_division", "account_code"} \cup NumericFields
DerivedFields ==
  {"balance_amount_as_on_01_04_2025", "total_exp_during_year",
   "total_value_work_done_from_beginning", "balance_works"}

\* The empty object {} and obj[key] = value.
EmptyMap == [x \in {} |-> ""]
Put(m, key, value) ==
  [x \in DOMAIN m \cup {key} |-> IF x = key THEN value ELSE m[x]]

emptyForm ==
  [sub_division |-> <<>>, account_code |-> "",
   number_of_works |-> <<>>, estimate_amount |-> <<>>,
   agreement_amount |-> <<>>, exp_upto_31_03_2025 |-> <<>>,
   exp_upto_last_month |-> <<>>, exp_during_this_month |-> <<>>,
   works_completed |-> <<>>]

OtherOption == <<"O", "t", "h", "e", "r", ".", ".", ".">>

\* ------------------------------------------------- new-task form (page.tsx)
parseNumber(value, type) ==
  LET trimmed == Trim(value)
      parsed == IF type = "int" THEN ParseInt(trimmed) ELSE ToNumber(trimmed)
  IN IF trimmed = <<>> THEN [value |-> Null, error |-> "Required."]
     ELSE IF isNaN(parsed)
       THEN [value |-> Null,
             error |-> IF type = "int" THEN "Enter a whole number."
                       ELSE "Enter a valid number."]
     ELSE IF Less(parsed, Whole(0))
       THEN [value |-> Null, error |-> "Must be non-negative."]
     ELSE [value |-> parsed, error |-> ""]

resolvedSubdivision(f, other) ==
  IF f.sub_division = OtherOption THEN Trim(other) ELSE Trim(f.sub_division)

\* fields.forEach: nextErrors[field] = result.error when result.error is set.
RECURSIVE FieldErrors(_, _, _, _)
FieldErrors(f, fields, type, acc) ==
  IF fields = <<>> THEN acc
  ELSE LET result == parseNumber(f[Head(fields)], type)
       IN FieldErrors(f, Tail(fields), type,
            IF result.error # "" THEN Put(acc, Head(fields), result.error)
            ELSE acc)

worksCheck(f, acc) ==
  LET works == parseNumber(f.number_of_works, "int").value
      completed == parseNumber(f.works_completed, "int").value
  IN IF works # Null /\ completed # Null /\ Less(works, completed)
     THEN Put(acc, "works_completed",
              "Number of Works Completed cannot exceed Number of Works.")
     ELSE acc

\* agreementCheck with the comparison turned round: a faulty variant, to show
\* that the claims on the agreement check depend on it.
agreementCheckReversed(f, acc) ==
  IF /\ parseNumber(f.agreement_amount, "float").value # Null
     /\ parseNumber(f.exp_upto_31_03_2025, "float").value # Null
     /\ Less(parseNumber(f.exp_upto_31_03_2025, "float").value,
             parseNumber(f.agreement_amount, "float").value)
  THEN Put(acc, "exp_upto_31_03_2025",
           "Expenditure up to 31-03-2025 must be <= Agreement Amount.")
  ELSE acc

agreementCheck(f, acc) ==
  LET agreement == parseNumber(f.agreement_amount, "float").value
      exp31 == parseNumber(f.exp_upto_31_03_2025, "float").value
  IN IF agreement # Null /\ exp31 # Null /\ Less(agreement, exp31)
     THEN Put(acc, "exp_upto_31_03_2025",
              "Expenditure up to 31-03-2025 must be <= Agreement Amount.")
     ELSE acc

validate(f, other) ==
  LET e1 == IF resolvedSubdivision(f, other) = <<>>
            THEN Put(EmptyMap, "sub_division", "Sub-Division is required.")
            ELSE EmptyMap
      e2 == IF f.account_code \notin {"Spill", "New"}
            THEN Put(e1, "account_code", "Account Code is required.")
            ELSE e1
      e3 == FieldErrors(f, intFields, "int", e2)
      e4 == FieldErrors(f, floatFields, "float", e3)
  IN agreementCheck(f, worksCheck(f, e4))

\* JSON.stringify writes NaN and the infinities as null.
JsonNumber(x) == IF isFinite(x) THEN x ELSE Null

submitPayload(f, other) ==
  [sub_division |-> resolvedSubdivision(f, other),
   account_code |-> f.account_code,
   number_of_works |-> JsonNumber(ToNumber(f.number_of_works)),
   estimate_amount |-> JsonNumber(ToNumber(f.estimate_amount)),
   agreement_amount |-> JsonNumber(ToNumber(f.agreement_amount)),
   exp_upto_31_03_2025 |-> JsonNumber(ToNumber(f.exp_upto_31_03_2025)),
   exp_upto_last_month |-> JsonNumber(ToNumber(f.exp_upto_last_month)),
   exp_during_this_month |-> JsonNumber(ToNumber(f.exp_during_this_month)),
   works_completed |-> JsonNumber(ToNumber(f.works_completed))]

toNumber(value) ==
  LET trimmed == Trim(value)
  IN IF trimmed = <<>> THEN NaN ELSE ToNumber(trimmed)

\* computed with exp_upto_last_month left out of totalValue: a faulty variant.
computedWithoutLastMonth(f) ==
  [balanceAmount |->
     IF isFinite(toNumber(f.agreement_amount)) /\ isFinite(toNumber(f.exp_upto_31_03_2025))
     THEN Minus(toNumber(f.agreement_amount), toNumber(f.exp_upto_31_03_2025))
     ELSE Null,
   totalYear |->
     IF isFinite(toNumber(f.exp_upto_last_month))
        /\ isFinite(toNumber(f.exp_during_this_month))
     THEN Plus(toNumber(f.exp_upto_last_month), toNumber(f.exp_during_this_month))
     ELSE Null,
   totalValue |->
     IF isFinite(toNumber(f.exp_upto_31_03_2025))
        /\ isFinite(toNumber(f.exp_during_this_month))
     THEN Plus(toNumber(f.exp_upto_31_03_2025), toNumber(f.exp_during_this_month))
     ELSE Null,
   balanceWorks |->
     IF isFinite(toNumber(f.number_of_works)) /\ isFinite(toNumber(f.works_completed))
     THEN Minus(toNumber(f.number_of_works), toNumber(f.works_completed))
     ELSE Null]

computed(f) ==
  LET agreement == toNumber(f.agreement_amount)
      exp31 == toNumber(f.exp_upto_31_03_2025)
      expLast == toNumber(f.exp_upto_last_month)
      expThis == toNumber(f.exp_during_this_month)
      works == toNumber(f.number_of_works)
      completed == toNumber(f.works_completed)
      totalYear == IF isFinite(expLast) /\ isFinite(expThis)
                   THEN Plus(expLast, expThis) ELSE Null
  IN [balanceAmount |-> IF isFinite(agreement) /\ isFinite(exp31)
                        THEN Minus(agreement, exp31) ELSE Null,
      totalYear |-> totalYear,
      totalValue |-> IF isFinite(exp31) /\ isFinite(totalYear)
                     THEN Plus(exp31, totalYear) ELSE Null,
      balanceWorks |-> IF isFinite(works) /\ isFinite(completed)
                       THEN Minus(works, completed) ELSE Null]


\* ------------------------------------------ edit modal (TaskEditModal.tsx)
modalParseNumber(value, type) ==
  LET trimmed == Trim(value)
      parsed == IF type = "int" THEN ParseInt(trimmed) ELSE ToNumber(trimmed)
  IN IF trimmed = <<>> THEN [value |-> Null, error |-> "Required."]
     ELSE IF isNaN(parsed)
       THEN [value |-> Null,
             error |-> IF type = "int" THEN "Enter a whole number."
                       ELSE "Enter a valid number."]
     ELSE IF Less(parsed, Whole(0))
       THEN [value |-> Null, error |-> "Must be non-negative."]
     ELSE [value |-> parsed, error |-> ""]

RECURSIVE modalFieldErrors(_, _, _, _)
modalFieldErrors(f, fields, type, acc) ==
  IF fields = <<>> THEN acc
  ELSE LET result == modalParseNumber(f[Head(fields)], type)
       IN modalFieldErrors(f, Tail(fields), type,
            IF result.error # "" THEN Put(acc, Head(fields), result.error)
            ELSE acc)

modalWorksCheck(f, acc) ==
  LET works == modalParseNumber(f.number_of_works, "int").value
      completed == modalParseNumber(f.works_completed, "int").value
  IN IF works # Null /\ completed # Null /\ Less(works, completed)
     THEN Put(acc, "works_completed",
              "Number of Works Completed cannot exceed Number of Works.")
     ELSE acc

modalAgreementCheck(f, acc) ==
  LET agreement == modalParseNumber(f.agreement_amount, "float").value
      exp31 == modalParseNumber(f.exp_upto_31_03_2025, "float").value
  IN IF agreement # Null /\ exp31 # Null /\ Less(agreement, exp31)
     THEN Put(acc, "exp_upto_31_03_2025",
              "Expenditure up to 31-03-2025 must be <= Agreement Amount.")
     ELSE acc

modalValidate(f) ==
  LET e1 == IF Trim(f.sub_division) = <<>>
            THEN Put(EmptyMap, "sub_division", "Sub-Division is required.")
            ELSE EmptyMap
      e2 == IF f.account_code \notin {"Spill", "New"}
            THEN Put(e1, "account_code", "Account Code is required.")
            ELSE e1
      e3 == modalFieldErrors(f, intFields, "int", e2)
      e4 == modalFieldErrors(f, floatFields, "float", e3)
  IN modalAgreementCheck(f, modalWorksCheck(f, e4))

\* savePayload that also sends the balance of works the modal displays: a
\* faulty variant.
savePayloadWithDerived(f) ==
  [sub_division |-> Trim(f.sub_division),
   account_code |-> f.account_code,
   number_of_works |-> JsonNumber(ToNumber(f.number_of_works)),
   estimate_amount |-> JsonNumber(ToNumber(f.estimate_amount)),
   agreement_amount |-> JsonNumber(ToNumber(f.agreement_amount)),
   exp_upto_31_03_2025 |-> JsonNumber(ToNumber(f.exp_upto_31_03_2025)),
   exp_upto_last_month |-> JsonNumber(ToNumber(f.exp_upto_last_month)),
   exp_during_this_month |-> JsonNumber(ToNumber(f.exp_during_this_month)),
   works_completed |-> JsonNumber(ToNumber(f.works_completed)),
   balance_works |-> JsonNumber(ToNumber(f.number_of_works))]

savePayload(f) ==
  [sub_division |-> Trim(f.sub_division),
   account_code |-> f.account_code,
   number_of_works |-> JsonNumber(ToNumber(f.number_of_works)),
   estimate_amount |-> JsonNumber(ToNumber(f.estimate_amount)),
   agreement_amount |-> JsonNumber(ToNumber(f.agreement_amount)),
   exp_upto_31_03_2025 |-> JsonNumber(ToNumber(f.exp_upto_31_03_2025)),
   exp_upto_last_month |-> JsonNumber(ToNumber(f.exp_upto_last_month)),
   exp_during_this_month |-> JsonNumber(ToNumber(f.exp_during_this_month)),
   works_completed |-> JsonNumber(ToNumber(f.works_completed))]

modalComputed(f) ==
  LET agreement == toNumber(f.agreement_amount)
      exp31 == toNumber(f.exp_upto_31_03_2025)
      expLast == toNumber(f.exp_upto_last_month)
      expThis == toNumber(f.exp_during_this_month)
      works == toNumber(f.number_of_works)
      completed == toNumber(f.works_completed)
      totalYear == IF isFinite(expLast) /\ isFinite(expThis)
                   THEN Plus(expLast, expThis) ELSE Null
  IN [balanceAmount |-> IF isFinite(agreement) /\ isFinite(exp31)
                        THEN Minus(agreement, exp31) ELSE Null,
      totalYear |-> totalYear,
      totalValue |-> IF isFinite(exp31) /\ isFinite(totalYear)
                     THEN Plus(exp31, totalYear) ELSE Null,
      balanceWorks |-> IF isFinite(works) /\ isFinite(completed)
                       THEN Minus(works, completed) ELSE Null]

\* initialTaskForm that fills agreement_amount from the estimate: a faulty
\* variant.
initialTaskFormMixedUp(task) ==
  [sub_division |-> task.sub_division,
   account_code |-> task.account_code,
   number_of_works |-> NumberToString(task.number_of_works),
   estimate_amount |-> NumberToString(task.estimate_amount),
   agreement_amount |-> NumberToString(task.estimate_amount),
   exp_upto_31_03_2025 |-> NumberToString(task.exp_upto_31_03_2025),
   exp_upto_last_month |-> NumberToString(task.exp_upto_last_month),
   exp_during_this_month |-> NumberToString(task.exp_during_this_month),
   works_completed |-> NumberToString(task.works_completed)]

\* useState initialiser of the modal: the form texts of the task it is opened on.
initialTaskForm(task) ==
  [sub_division |-> task.sub_division,
   account_code |-> task.account_code,
   number_of_works |-> NumberToString(task.number_of_works),
   estimate_amount |-> NumberToString(task.estimate_amount),
   agreement_amount |-> NumberToString(task.agreement_amount),
   exp_upto_31_03_2025 |-> NumberToString(task.exp_upto_31_03_2025),
   exp_upto_last_month |-> NumberToString(task.exp_upto_last_month),
   exp_during_this_month |-> NumberToString(task.exp_during_this_month),
   works_completed |-> NumberToString(task.works_completed)]

\* --------------------------------------------- record store (spec 3, 4.1, 6)
\* The backend is not part of the sources; it is modelled from the specification.
rawErrors(raw) ==
  {f \in Range(intFields) : ~(IsInteger(raw[f]) /\ raw[f].v >= 0)}
    \cup {f \in Range(floatFields) : ~(isFinite(raw[f]) /\ raw[f].v >= 0)}
    \cup (IF Trim(raw.sub_division) = <<>> THEN {"sub_division"} ELSE {})
    \cup (IF raw.account_code \notin {"Spill", "New"} THEN {"account_code"} ELSE {})
    \cup (IF /\ isFinite(raw.number_of_works) /\ isFinite(raw.works_completed)
             /\ raw.works_completed.v > raw.number_of_works.v
          THEN {"works_completed"} ELSE {})
    \cup (IF /\ isFinite(raw.agreement_amount) /\ isFinite(raw.exp_upto_31_03_2025)
             /\ raw.exp_upto_31_03_2025.v > raw.agreement_amount.v
          THEN {"exp_upto_31_03_2025"} ELSE {})

derive(raw) ==
  LET totalYear == Plus(raw.exp_upto_last_month, raw.exp_during_this_month)
  IN [balance_amount_as_on_01_04_2025 |->
        Minus(raw.agreement_amount, raw.exp_upto_31_03_2025),
      total_exp_during_year |-> totalYear,
      total_value_work_done_from_beginning |->
        Plus(raw.exp_upto_31_03_2025, totalYear),
      balance_works |-> Minus(raw.number_of_works, raw.works_completed)]

\* Two records with disjoint field names joined into one.
Join(a, b) ==
  [x \in DOMAIN a \cup DOMAIN b |-> IF x \in DOMAIN a THEN a[x] ELSE b[x]]

rawOf(rec) == [x \in RawFields |-> rec[x]]

completeRecord(sno, raw) == Join([sno |-> sno], Join(rawOf(raw), derive(raw)))

\* PATCH merge: the fields the body provides override the stored raw fields.
mergeRaw(rec, body) ==
  [x \in RawFields |-> IF x \in DOMAIN body THEN body[x] ELSE rec[x]]


\* ------------------------------------------------- query engine (spec 4.2)
\* Like the record store, the query engine is not part of the sources; it is
\* modelled from the specification.  created_at and the date filters are
\* left out.
UpperChars ==
  <<"A", "B", "C", "D", "E", "F", "G", "H", "I", "J", "K", "L", "M",
    "N", "O", "P", "Q", "R", "S", "T", "U", "V", "W", "X", "Y", "Z">>
LowerChars ==
  <<"a", "b", "c", "d", "e", "f", "g", "h", "i", "j", "k", "l", "m",
    "n", "o", "p", "q", "r", "s", "t", "u", "v", "w", "x", "y", "z">>

lowerChar(c) ==
  IF \E i \in DOMAIN UpperChars : UpperChars[i] = c
  THEN LowerChars[CHOOSE i \in DOMAIN UpperChars : UpperChars[i] = c]
  ELSE c

lower(t) == [i \in DOMAIN t |-> lowerChar(t[i])]

\* needle occurs in hay as a run of consecutive characters.
contains(hay, needle) ==
  \E i \in 0..(Len(hay) - Len(needle)) : SubSeq(hay, i + 1, i + Len(needle)) = needle

\* No filter at all: an empty sub_division text and account_code "".
NoFilter == [sub_division |-> <<>>, account_code |-> ""]

\* The sub_division filter comparing case.
matchesCase(rec, filter) ==
  /\ filter.sub_division = <<>> \/ contains(rec.sub_division, filter.sub_division)
  /\ filter.account_code = "" \/ rec.account_code = filter.account_code

\* The filter of list and summarize: sub_division a case-insensitive
\* substring, account_code exact; a filter left out matches everything.
matches(rec, filter) ==
  /\ filter.sub_division = <<>>
       \/ contains(lower(rec.sub_division), lower(filter.sub_division))
  /\ filter.account_code = "" \/ rec.account_code = filter.account_code

RECURSIVE filterRecords(_, _)
filterRecords(records, filter) ==
  IF records = <<>> THEN <<>>
  ELSE (IF matches(Head(records), filter) THEN <<Head(records)>> ELSE <<>>)
         \o filterRecords(Tail(records), filter)

\* The columns a list can be sorted by in the model: sno and the numeric
\* fields.  Any other name falls back to sno.
SortColumns == {"sno"} \cup NumericFields \cup DerivedFields

\* An unknown column treated as the last column of the record.
sortKeyUnknownLast(rec, sort_by) ==
  IF sort_by \in {"sno", "created_at"} THEN rec.sno
  ELSE IF sort_by \in SortColumns THEN rec[sort_by].v
  ELSE rec.balance_works.v

\* created_at is set at creation, as sno is, so that it orders the records
\* as sno does.
sortKey(rec, sort_by) ==
  IF sort_by \in {"sno", "created_at"} \/ sort_by \notin SortColumns THEN rec.sno
  ELSE rec[sort_by].v

\* a comes before b in the order asked for.
before(a, b, sort_by, order) ==
  IF order = "desc" THEN sortKey(a, sort_by) > sortKey(b, sort_by)
  ELSE sortKey(a, sort_by) < sortKey(b, sort_by)

\* rec put into a sorted sequence behind every record that does not come
\* after it, so that records comparing equal keep their order (stable sort).
RECURSIVE insertSorted(_, _, _, _)
insertSorted(sorted, rec, sort_by, order) ==
  IF sorted = <<>> THEN <<rec>>
  ELSE IF before(rec, Head(sorted), sort_by, order) THEN <<rec>> \o sorted
  ELSE <<Head(sorted)>> \o insertSorted(Tail(sorted), rec, sort_by, order)

RECURSIVE sortRecords(_, _, _)
sortRecords(records, sort_by, order) ==
  IF records = <<>> THEN <<>>
  ELSE insertSorted(
         sortRecords(SubSeq(records, 1, Len(records) - 1), sort_by, order),
         records[Len(records)], sort_by, order)

\* page_size as served: 50 when left out (0 here), at most 500.
DefaultPageSize == 50
MaxPageSize == 500
effectivePageSize(page_size) ==
  IF page_size = 0 THEN DefaultPageSize
  ELSE IF page_size > MaxPageSize THEN MaxPageSize
  ELSE page_size

\* ceil(total_items / page_size), at least 1.
totalPagesOf(total_items, page_size) ==
  IF total_items = 0 THEN 1 ELSE (total_items + page_size - 1) \div page_size

\* A page beyond the last answered with the first page.
pageOfOrFirst(records, page, page_size) ==
  SubSeq(records,
         IF (page - 1) * page_size >= Len(records) THEN 1
         ELSE (page - 1) * page_size + 1,
         IF (page - 1) * page_size >= Len(records)
         THEN (IF page_size < Len(records) THEN page_size ELSE Len(records))
         ELSE (IF page * page_size < Len(records) THEN page * page_size
               ELSE Len(records)))

\* Items of one page; none when the page lies beyond the last.
pageOf(records, page, page_size) ==
  SubSeq(records, (page - 1) * page_size + 1,
         IF page * page_size < Len(records) THEN page * page_size ELSE Len(records))

\* Contract A: list(records, filter, sort_by, order, page, page_size).
\* q.page = 0 stands for a page left out (default 1).
listTasks(records, q) ==
  [items |-> pageOf(sortRecords(filterRecords(records, q.filter), q.sort_by, q.order),
                    IF q.page = 0 THEN 1 ELSE q.page,
                    effectivePageSize(q.page_size)),
   page |-> IF q.page = 0 THEN 1 ELSE q.page,
   page_size |-> effectivePageSize(q.page_size),
   total_items |-> Len(filterRecords(records, q.filter)),
   total_pages |-> totalPagesOf(Len(filterRecords(records, q.filter)),
                                effectivePageSize(q.page_size))]

\* The fields summarize adds up: the numeric fields, raw and derived.
SummedFields == NumericFields \cup DerivedFields

RECURSIVE sumField(_, _)
sumField(records, field) ==
  IF records = <<>> THEN 0
  ELSE Head(records)[field].v + sumField(Tail(records), field)

totals(records) == [field \in SummedFields |-> Fin(sumField(records, field))]

\* The records of a group: those whose sub_division (and account_code) is
\* exactly the key.
RECURSIVE ofSubdivision(_, _)
ofSubdivision(records, sd) ==
  IF records = <<>> THEN <<>>
  ELSE (IF Head(records).sub_division = sd THEN <<Head(records)>> ELSE <<>>)
         \o ofSubdivision(Tail(records), sd)

RECURSIVE ofAccountCode(_, _)
ofAccountCode(records, ac) ==
  IF records = <<>> THEN <<>>
  ELSE (IF Head(records).account_code = ac THEN <<Head(records)>> ELSE <<>>)
         \o ofAccountCode(Tail(records), ac)

byAccountCode(records) ==
  {[account_code |-> ac, totals |-> totals(ofAccountCode(records, ac))] :
     ac \in {records[i].account_code : i \in DOMAIN records}}

bySubdivision(records) ==
  {[sub_division |-> sd,
    totals |-> totals(ofSubdivision(records, sd)),
    by_account_code |-> byAccountCode(ofSubdivision(records, sd))] :
     sd \in {records[i].sub_division : i \in DOMAIN records}}

\* Contract B: summarize(records, filter).  The groups are a set: the
\* specification fixes no order for them.
summarize(records, filter) ==
  [grand_totals |-> totals(filterRecords(records, filter)),
   by_sub_division |-> bySubdivision(filterRecords(records, filter))]

\* ------------------------------------------------------- texts a user types
Txt4 == <<"4">>
Txt5 == <<"5">>
Txt10 == <<"1", "0">>
Txt12 == <<"1", "2">>
Txt3p7 == <<"3", ".", "7">>
Txt1e2 == <<"1", "e", "2">>
Txt12abc == <<"1", "2", "a", "b", "c">>
TxtMinus1 == <<"-", "1">>
TxtMinus0p5 == <<"-", "0", ".", "5">>
TxtAbc == <<"a", "b", "c">>
Txt0p5 == <<"0", ".", "5">>
Txt50 == <<"5", "0">>
Txt75 == <<" ", "7", "5", " ">>
Txt100 == <<"1", "0", "0">>
Txt400 == <<"4", "0", "0">>
Txt900 == <<"9", "0", "0">>
Txt950 == <<"9", "5", "0">>
Txt1000 == <<"1", "0", "0", "0">>
TxtMinus2p5 == <<"-", "2", ".", "5">>
TxtRKV1 == <<"R", "K", "V", "1">>
TxtPaddedSZ == <<" ", "S", "Z", " ">>
TxtBlank == <<" ">>

\* Texts tried in each field when the forms are checked over all their
\* combinations (InitInputs): blank, plain numerals, a decimal, an exponent,
\* trailing letters, negatives, letters only, Infinity.
FieldSamples(key) ==
  CASE key = "number_of_works" -> {<<>>, Txt10, Txt3p7, Txt12abc, TxtMinus1}
    [] key = "works_completed" ->
         {<<>>, Txt4, Txt12, Txt3p7, Txt1e2, Txt12abc, TxtMinus1, TxtMinus0p5, TxtAbc}
    [] key = "agreement_amount" -> {<<>>, Txt900, TxtMinus2p5, TxtAbc}
    [] key = "exp_upto_31_03_2025" ->
         {<<>>, Txt0p5, Txt400, Txt950, TxtMinus2p5, TxtAbc, InfinityText}
    [] key = "estimate_amount" -> {Txt1000}
    [] key = "exp_upto_last_month" -> {Txt100}
    [] key = "exp_during_this_month" -> {Txt50}
    [] key = "account_code" -> {"", "New"}
    [] OTHER -> {TxtRKV1, TxtPaddedSZ, TxtBlank}

\* What the user of a run types into a field of the new-task form.
FormInputs(key) ==
  CASE key = "sub_division" -> {OtherOption}
    [] key = "works_completed" -> {Txt1e2, TxtMinus0p5}
    [] key = "exp_upto_31_03_2025" -> {Txt950}
    [] OTHER -> {}

\* What the user of a run types into a field of the edit modal (plain text
\* inputs): 5, which the backend accepts, and 1e2, which modalValidate lets
\* through and the backend rejects.
ModalInputs(key) ==
  CASE key = "works_completed" -> {Txt5, Txt1e2}
    [] OTHER -> {}

\* /config/templates.json: the worked example of the specification as a template.
ExampleTemplate ==
  [sub_division |-> TxtRKV1, account_code |-> "New",
   number_of_works |-> Txt10, estimate_amount |-> Txt1000,
   agreement_amount |-> Txt900, exp_upto_31_03_2025 |-> Txt400,
   exp_upto_last_month |-> Txt100, exp_during_this_month |-> Txt50,
   works_completed |-> Txt4]

\* The templates state once fetchConfig, the mount effect, has run: the model
\* starts there.  (templateName and touched only drive the display and are not
\* part of the state.)
templates == [Blank |-> EmptyMap, Example |-> ExampleTemplate]

\* ------------------------------------------------------------------ state
\* page: the mounted page.  session: sessionStorage.
\* form .. message, formComputed: state and memo of the new-task page.
\* posts: POST /api/tasks requests on their way, each with its response once
\*   the backend has answered and with live = the component that awaits it is
\*   still mounted.
\* data .. actionMessage: state of the task list; reload: the list effect is
\*   due to run (query or refreshKey changed since it last ran); query: the
\*   filter, sort and page state; gets: GET /api/tasks requests on their way
\*   that have not been aborted; deletes: DELETE /api/tasks/{sno} requests on
\*   their way.  editing .. taskComputed: the edit modal; dirty: the fields
\*   the user changed since the modal opened.
\* patches: PATCH /api/tasks/{sno} requests on their way; task and dirty
\*   record the task the modal was opened on and the fields changed in it.
\* store, nextSno: the record store behind the API.  saves: PATCHes sent.
\* cookieStore, calls: the cookies of the browser and the route handler
\*   invocations of the Next.js proxy.
VARIABLES
  page, session,
  form, otherSubdivision, errors, loading, message, formComputed,
  posts,
  data, reload, listError, actionMessage, query, gets, deletes,
  editing, taskForm, taskErrors, saving, dirty, taskComputed,
  patches,
  store, nextSno, saves,
  cookieStore, calls,
  accounts, users, usersReload, usersMessage, usersGets, statusPatches,
  request,
  summaryQuery, summary, summaryReload

formVars == <<form, otherSubdivision, errors, loading, message, formComputed>>
listVars == <<data, reload, listError, actionMessage, query, gets, deletes>>
modalVars == <<editing, taskForm, taskErrors, saving, dirty, taskComputed>>
storeVars == <<store, nextSno>>
proxyVars == <<cookieStore, calls>>
summaryVars == <<summaryQuery, summary, summaryReload>>
adminVars == <<accounts, users, usersReload, usersMessage, usersGets, statusPatches>>
clientVars ==
  <<page, session, formVars, posts, listVars, modalVars, patches, storeVars, saves,
    summaryVars>>
vars == <<clientVars, proxyVars, adminVars, request>>

NoMessage == [kind |-> "none", sno |-> 0, text |-> ""]
NoTask == [sno |-> 0]
\* data = null, and a list request not yet answered.
NoData == [items |-> <<>>, page |-> 0, page_size |-> 0, total_items |-> 0,
           total_pages |-> 0]

\* useState initialisers of the filter, sort and page state.
initialQuery ==
  [sort_by |-> "created_at", order |-> "desc", page |-> 1, page_size |-> 50,
   sub_division |-> <<>>, account_code |-> "All",
   date_from |-> "", date_to |-> ""]

\* The query of the list effect as the backend receives it: sub_division is
\* left out when empty and account_code when it is All.
sentQuery(q) ==
  [sort_by |-> q.sort_by, order |-> q.order, page |-> q.page,
   page_size |-> q.page_size, date_from |-> q.date_from, date_to |-> q.date_to,
   filter |-> [sub_division |-> q.sub_division,
               account_code |-> IF q.account_code = "All" THEN "" ELSE q.account_code]]
NoResponse == [ok |-> FALSE, status |-> 0, sno |-> 0, message |-> ""]

NoCookies == [token |-> "", role |-> "", username |-> ""]
UserSession == [token |-> "jwt", role |-> "user", username |-> "clerk"]
AdminSession == [token |-> "jwt-admin", role |-> "admin", username |-> "head"]

\* useState initialiser of the new-task form: the empty form with the
\* sub-division and account code of the last submission of the session.
initialForm(ss) ==
  [emptyForm EXCEPT !.sub_division = ss.last_subdivision,
                    !.account_code = ss.last_account_code]

\* The new-task page, the task list and the modal as they mount, a browser
\* tab with nothing stored, a signed-in user, an empty store.
FormMounted ==
  /\ form = initialForm(session)
  /\ otherSubdivision = <<>>
  /\ errors = EmptyMap
  /\ loading = FALSE
  /\ message = NoMessage
  /\ formComputed = computed(form)

ListMounted ==
  /\ data = NoData
  /\ reload = TRUE
  /\ listError = ""
  /\ actionMessage = ""
  /\ query = initialQuery
  /\ gets = <<>>
  /\ deletes = <<>>

ModalClosed ==
  /\ editing = NoTask
  /\ taskForm = emptyForm
  /\ taskErrors = EmptyMap
  /\ saving = FALSE
  /\ dirty = {}
  /\ taskComputed = modalComputed(emptyForm)

NewSession == session = [last_subdivision |-> <<>>, last_account_code |-> ""]

EmptyStore == store = <<>> /\ nextSno = 1 /\ saves = 0

SignedIn == cookieStore = UserSession /\ calls = <<>>

\* No navigation under way.
NoRequest == [trail |-> <<>>, stage |-> "none"]

\* The user-management screen as it mounts: useState initialisers.
UsersMounted ==
  /\ users = <<>>
  /\ usersReload = TRUE
  /\ usersMessage = ""
  /\ usersGets = <<>>
  /\ statusPatches = <<>>

\* The parts of the portal a run does not visit.
NoAccounts == accounts = <<>>
AtRest == request = NoRequest

\* useState initialisers of the summary screen; its effect is due.
NoSummary == [grand_totals |-> <<>>, by_sub_division |-> <<>>]
SummaryMounted ==
  /\ summaryQuery = [sub_division |-> <<>>, account_code |-> "All"]
  /\ summary = NoSummary
  /\ summaryReload = TRUE

Init ==
  /\ page = "new-task"
  /\ NewSession
  /\ FormMounted
  /\ posts = <<>>
  /\ ListMounted
  /\ ModalClosed
  /\ patches = <<>>
  /\ EmptyStore
  /\ SignedIn
  /\ NoAccounts
  /\ UsersMounted
  /\ AtRest
  /\ SummaryMounted

RemoveAt(q, i) == SubSeq(q, 1, i - 1) \o SubSeq(q, i + 1, Len(q))

\* The requests of a component that unmounts stay in flight; their
\* continuations then run against a component that is gone.
Orphaned(q) == [i \in DOMAIN q |-> [q[i] EXCEPT !.live = FALSE]]

\* --------------------------------------------------- new-task form actions
\* <input type="number">: event.target.value is the typed text when it is a
\* valid floating-point number (-? digits [. digits] [e [sign] digits]) and
\* the empty string otherwise.
numberInputValue(typed) ==
  IF /\ Unsigned(typed) # <<>>
     /\ (typed = <<>> \/ Head(typed) # "+")
     /\ (IsDigit(Head(Unsigned(typed))) \/ Head(Unsigned(typed)) = ".")
     /\ IsDigit(typed[Len(typed)])
     /\ isFinite(DecimalValue(Unsigned(typed)))
  THEN typed ELSE <<>>

handleChange(key, typed) ==
  /\ page = "new-task"
  /\ form' = [form EXCEPT ![key] =
                IF key \in NumericFields THEN numberInputValue(typed) ELSE typed]
  /\ otherSubdivision' =
       IF key = "sub_division" /\ typed # OtherOption THEN <<>> ELSE otherSubdivision
  /\ formComputed' = computed(form')
  /\ UNCHANGED <<page, session, errors, loading, message,
                 posts, listVars, modalVars, patches, storeVars, saves, proxyVars>>
  /\ UNCHANGED <<adminVars, request, summaryVars>>

\* onChange of the text input shown while "Other..." is selected.
setOtherSubdivision(value) ==
  /\ page = "new-task"
  /\ form.sub_division = OtherOption
  /\ otherSubdivision' = value
  /\ UNCHANGED <<page, session, form, errors, loading, message, formComputed,
                 posts, listVars, modalVars, patches, storeVars, saves, proxyVars>>
  /\ UNCHANGED <<adminVars, request, summaryVars>>

\* handleClear(keepTemplate): the form state it leaves.
clearedForm(f, keepTemplate) ==
  [emptyForm EXCEPT
     !.sub_division = IF keepTemplate THEN f.sub_division ELSE <<>>,
     !.account_code = IF keepTemplate THEN f.account_code ELSE ""]

handleClear ==
  /\ page = "new-task"
  /\ form' = clearedForm(form, TRUE)
  /\ otherSubdivision' = <<>>
  /\ errors' = EmptyMap
  /\ message' = NoMessage
  /\ formComputed' = computed(form')
  /\ UNCHANGED <<page, session, loading,
                 posts, listVars, modalVars, patches, storeVars, saves, proxyVars>>
  /\ UNCHANGED <<adminVars, request, summaryVars>>

handleTemplateChange(name) ==
  /\ page = "new-task"
  /\ name \in DOMAIN templates
  /\ IF name = "Blank"
     THEN /\ form' = clearedForm(form, FALSE)
          /\ otherSubdivision' = <<>>
          /\ message' = NoMessage
     ELSE /\ form' = [x \in DOMAIN form |->
                        IF x \in DOMAIN templates[name] THEN templates[name][x]
                        ELSE form[x]]
          /\ UNCHANGED <<otherSubdivision, message>>
  /\ errors' = EmptyMap
  /\ formComputed' = computed(form')
  /\ UNCHANGED <<page, session, loading,
                 posts, listVars, modalVars, patches, storeVars, saves, proxyVars>>
  /\ UNCHANGED <<adminVars, request, summaryVars>>

\* handleSubmit up to its await of fetch("/api/tasks").  The Submit button is
\* disabled while loading; the Enter-key handler calls handleSubmit regardless.
handleSubmit ==
  /\ page = "new-task"
  /\ errors' = validate(form, otherSubdivision)
  /\ message' = NoMessage
  /\ IF errors' # EmptyMap
     THEN UNCHANGED <<loading, posts>>
     ELSE /\ Len(posts) + Len(store) < MaxPosts
          /\ loading' = TRUE
          /\ posts' = Append(posts,
               [body |-> submitPayload(form, otherSubdivision),
                resp |-> NoResponse, live |-> TRUE])
  /\ UNCHANGED <<page, session, form, otherSubdivision, formComputed,
                 listVars, modalVars, patches, storeVars, saves, proxyVars>>
  /\ UNCHANGED <<adminVars, request, summaryVars>>

resolveErrorMessage(resp) ==
  IF resp.message # "" THEN resp.message ELSE "Request failed."

\* handleSubmit after the await: the response of request i has arrived.
handleSubmitResponse(i) ==
  /\ i \in DOMAIN posts
  /\ posts[i].resp # NoResponse
  /\ posts' = RemoveAt(posts, i)
  /\ IF ~posts[i].resp.ok
     THEN /\ IF posts[i].live
             THEN /\ message' =
                       [kind |-> "error", sno |-> 0,
                        text |-> resolveErrorMessage(posts[i].resp)]
                  /\ loading' = FALSE
             ELSE UNCHANGED <<message, loading>>
          /\ UNCHANGED <<session, form, otherSubdivision, errors, formComputed>>
     ELSE \* setMessage("Success. ..."), then handleClear(false), whose
          \* setMessage(null) is the last update of the batch.
          /\ session' = [last_subdivision |-> posts[i].body.sub_division,
                         last_account_code |-> posts[i].body.account_code]
          /\ IF posts[i].live
             THEN /\ message' = NoMessage
                  /\ form' = clearedForm(form, FALSE)
                  /\ otherSubdivision' = <<>>
                  /\ errors' = EmptyMap
                  /\ loading' = FALSE
                  /\ formComputed' = computed(form')
             ELSE UNCHANGED <<message, form, otherSubdivision, errors, loading,
                              formComputed>>
  /\ UNCHANGED <<page, listVars, modalVars, patches, storeVars, saves, proxyVars>>
  /\ UNCHANGED <<adminVars, request, summaryVars>>

\* ------------------------------------------------- task list and edit modal
\* The list effect up to its await of fetch("/api/tasks?..."): it runs after
\* the mount and after every change of query or refreshKey.  The cleanup of
\* its previous run has aborted the request of that run, whose fetch then
\* rejects, so that the rest of that load never runs: the request is dropped.
loadTasks ==
  /\ page = "tasks"
  /\ reload
  /\ reload' = FALSE
  /\ listError' = ""
  /\ gets' = SelectSeq(gets, LAMBDA g : g.by # "list")
                \o <<[by |-> "list", q |-> sentQuery(query), resp |-> NoData]>>
  /\ UNCHANGED <<page, session, formVars, posts, data, actionMessage, query, deletes,
                 modalVars, patches, storeVars, saves, proxyVars>>
  /\ UNCHANGED <<adminVars, request, summaryVars>>

\* The list effect after the await: setData(payload).
loadResponse(i) ==
  /\ i \in DOMAIN gets
  /\ gets[i].by = "list"
  /\ gets[i].resp # NoData
  /\ data' = gets[i].resp
  /\ gets' = RemoveAt(gets, i)
  /\ UNCHANGED <<page, session, formVars, posts, reload, listError, actionMessage,
                 query, deletes, modalVars, patches, storeVars, saves, proxyVars>>
  /\ UNCHANGED <<adminVars, request, summaryVars>>

\* A control whose onChange leaves out resetPage(): a faulty variant.
changeQueryKeepsPage(key, value) ==
  /\ page = "tasks"
  /\ query' = [query EXCEPT ![key] = value]
  /\ reload' = (reload \/ query' # query)
  /\ UNCHANGED <<page, session, formVars, posts, data, listError, actionMessage,
                 gets, deletes, modalVars, patches, storeVars, saves, proxyVars>>
  /\ UNCHANGED <<adminVars, request, summaryVars>>

\* onChange of a filter, sort or page-size control: the setter and resetPage().
\* The list effect is due when the query has changed.
changeQuery(key, value) ==
  /\ page = "tasks"
  /\ query' = [query EXCEPT ![key] = value, !.page = 1]
  /\ reload' = (reload \/ query' # query)
  /\ UNCHANGED <<page, session, formVars, posts, data, listError, actionMessage,
                 gets, deletes, modalVars, patches, storeVars, saves, proxyVars>>
  /\ UNCHANGED <<adminVars, request, summaryVars>>

\* totalPages without its default.
totalPagesOfData == data.total_pages

\* const totalPages = data?.total_pages || 1
totalPages == IF data.total_pages = 0 THEN 1 ELSE data.total_pages

\* The page-size select with an option above the backend's maximum.
PageSizesWithThousand == {25, 50, 100, 200, 500, 1000}

\* The options of the page-size select.
PageSizes == {25, 50, 100, 200, 500}

\* Prev (step -1, disabled on page 1) and Next (step 1, disabled on the last
\* page of the data shown): setPage(prev => Math.max(1, prev - 1)) and
\* setPage(prev => Math.min(totalPages, prev + 1)).
setPage(step) ==
  /\ page = "tasks"
  /\ IF step < 0 THEN query.page > 1 ELSE query.page < totalPages
  /\ query' = [query EXCEPT !.page =
                 IF step < 0
                 THEN IF query.page - 1 < 1 THEN 1 ELSE query.page - 1
                 ELSE IF query.page + 1 > totalPages THEN totalPages
                      ELSE query.page + 1]
  /\ reload' = (reload \/ query' # query)
  /\ UNCHANGED <<page, session, formVars, posts, data, listError, actionMessage,
                 gets, deletes, modalVars, patches, storeVars, saves, proxyVars>>
  /\ UNCHANGED <<adminVars, request, summaryVars>>

\* The query of the summary effect as the backend receives it.
sentSummaryQuery(q) ==
  [filter |-> [sub_division |-> q.sub_division,
               account_code |-> IF q.account_code = "All" THEN "" ELSE q.account_code]]

\* The summary effect keeping the request of its previous run: a faulty
\* variant, without the cleanup.
loadSummaryWithoutAbort ==
  /\ page = "summary"
  /\ summaryReload
  /\ summaryReload' = FALSE
  /\ gets' = Append(gets, [by |-> "summary", q |-> sentSummaryQuery(summaryQuery),
                           resp |-> NoData])
  /\ UNCHANGED <<page, session, formVars, posts, data, reload, listError,
                 actionMessage, query, deletes, modalVars, patches, storeVars, saves,
                 proxyVars, summaryQuery, summary>>
  /\ UNCHANGED <<adminVars, request>>

\* The summary effect up to its await of fetch("/api/admin/summary?..."): it
\* runs after the mount and after every change of query; the cleanup of its
\* previous run has aborted the request of that run.
loadSummary ==
  /\ page = "summary"
  /\ summaryReload
  /\ summaryReload' = FALSE
  /\ gets' = SelectSeq(gets, LAMBDA g : g.by # "summary")
                \o <<[by |-> "summary", q |-> sentSummaryQuery(summaryQuery),
                      resp |-> NoData]>>
  /\ UNCHANGED <<page, session, formVars, posts, data, reload, listError,
                 actionMessage, query, deletes, modalVars, patches, storeVars, saves,
                 proxyVars, summaryQuery, summary>>
  /\ UNCHANGED <<adminVars, request>>

\* The summary effect after the await: setSummary(payload).
summaryResponse(i) ==
  /\ page = "summary"
  /\ i \in DOMAIN gets
  /\ gets[i].by = "summary"
  /\ gets[i].resp # NoData
  /\ summary' = gets[i].resp
  /\ gets' = RemoveAt(gets, i)
  /\ UNCHANGED <<page, session, formVars, posts, data, reload, listError,
                 actionMessage, query, deletes, modalVars, patches, storeVars, saves,
                 proxyVars, summaryQuery, summaryReload>>
  /\ UNCHANGED <<adminVars, request>>

\* onChange of a filter control of the summary screen.
changeSummaryQuery(key, value) ==
  /\ page = "summary"
  /\ summaryQuery' = [summaryQuery EXCEPT ![key] = value]
  /\ summaryReload' = (summaryReload \/ summaryQuery' # summaryQuery)
  /\ UNCHANGED <<page, session, formVars, posts, listVars, modalVars, patches,
                 storeVars, saves, proxyVars, summary>>
  /\ UNCHANGED <<adminVars, request>>

\* Edit button: setEditing(item); the modal is keyed by sno and mounts with
\* the form built from the item.
setEditing(i) ==
  /\ page = "tasks"
  /\ i \in DOMAIN data.items
  /\ editing = NoTask
  /\ editing' = data.items[i]
  /\ taskForm' = initialTaskForm(data.items[i])
  /\ taskErrors' = EmptyMap
  /\ saving' = FALSE
  /\ dirty' = {}
  /\ taskComputed' = modalComputed(taskForm')
  /\ UNCHANGED <<page, session, formVars, posts, listVars, patches, storeVars,
                 saves, proxyVars>>
  /\ UNCHANGED <<adminVars, request, summaryVars>>

\* Close button of the modal: setEditing(null), the modal unmounts.
onClose ==
  /\ page = "tasks"
  /\ editing # NoTask
  /\ editing' = NoTask
  /\ taskForm' = emptyForm
  /\ taskErrors' = EmptyMap
  /\ saving' = FALSE
  /\ dirty' = {}
  /\ taskComputed' = modalComputed(emptyForm)
  /\ patches' = Orphaned(patches)
  /\ UNCHANGED <<page, session, formVars, posts, listVars, storeVars, saves,
                 proxyVars>>
  /\ UNCHANGED <<adminVars, request, summaryVars>>

\* onChange of a modal input: setForm(prev => ({...prev, [key]: value})).
setForm(key, value) ==
  /\ page = "tasks"
  /\ editing # NoTask
  /\ taskForm' = [taskForm EXCEPT ![key] = value]
  /\ dirty' = dirty \cup {key}
  /\ taskComputed' = modalComputed(taskForm')
  /\ UNCHANGED <<page, session, formVars, posts, listVars, editing, taskErrors,
                 saving, patches, storeVars, saves, proxyVars>>
  /\ UNCHANGED <<adminVars, request, summaryVars>>

\* handleSave up to its await of onSave (handleEditSave's fetch PATCH).  The
\* Save button is disabled while saving.
handleSave ==
  /\ page = "tasks"
  /\ editing # NoTask
  /\ ~saving
  /\ taskErrors' = modalValidate(taskForm)
  /\ IF taskErrors' # EmptyMap
     THEN UNCHANGED <<saving, patches, saves>>
     ELSE /\ saves < MaxSaves
          /\ saves' = saves + 1
          /\ saving' = TRUE
          /\ patches' = Append(patches,
               [sno |-> editing.sno, body |-> savePayload(taskForm),
                task |-> editing, dirty |-> dirty,
                resp |-> NoResponse, live |-> TRUE])
  /\ UNCHANGED <<page, session, formVars, posts, listVars, editing, taskForm,
                 dirty, taskComputed, storeVars, proxyVars>>
  /\ UNCHANGED <<adminVars, request, summaryVars>>

\* handleSave calling onClose() whatever onSave reports: a faulty variant.
handleSaveResponseAlwaysCloses(i) ==
  /\ i \in DOMAIN patches
  /\ patches[i].resp # NoResponse
  /\ IF patches[i].resp.ok
     THEN /\ actionMessage' = "Task updated."
          /\ reload' = TRUE
          /\ UNCHANGED listError
     ELSE /\ listError' = resolveErrorMessage(patches[i].resp)
          /\ UNCHANGED <<actionMessage, reload>>
  /\ editing' = NoTask
  /\ taskForm' = emptyForm
  /\ taskErrors' = EmptyMap
  /\ saving' = FALSE
  /\ dirty' = {}
  /\ taskComputed' = modalComputed(emptyForm)
  /\ patches' = Orphaned(RemoveAt(patches, i))
  /\ UNCHANGED <<page, session, formVars, posts, data, query, gets, deletes,
                 storeVars, saves, proxyVars>>
  /\ UNCHANGED <<adminVars, request, summaryVars>>

\* handleEditSave after its await, then the rest of handleSave: setSaving(false)
\* and, on success, onClose(), which is the list's setEditing(null) whichever
\* modal is open by then.
handleSaveResponse(i) ==
  /\ i \in DOMAIN patches
  /\ patches[i].resp # NoResponse
  /\ IF patches[i].resp.ok
     THEN /\ actionMessage' = "Task updated."
          /\ reload' = TRUE
          /\ editing' = NoTask
          /\ taskForm' = emptyForm
          /\ taskErrors' = EmptyMap
          /\ saving' = FALSE
          /\ dirty' = {}
          /\ taskComputed' = modalComputed(emptyForm)
          /\ patches' = Orphaned(RemoveAt(patches, i))
          /\ UNCHANGED listError
     ELSE /\ listError' = resolveErrorMessage(patches[i].resp)
          /\ saving' = IF patches[i].live THEN FALSE ELSE saving
          /\ patches' = RemoveAt(patches, i)
          /\ UNCHANGED <<actionMessage, reload, editing, taskForm, taskErrors,
                         dirty, taskComputed>>
  /\ UNCHANGED <<page, session, formVars, posts, data, query, gets, deletes,
                 storeVars, saves, proxyVars>>
  /\ UNCHANGED <<adminVars, request, summaryVars>>

\* handleDelete up to its await of fetch: window.confirm was answered OK.
handleDelete(i) ==
  /\ page = "tasks"
  /\ i \in DOMAIN data.items
  /\ saves < MaxSaves
  /\ saves' = saves + 1
  /\ deletes' = Append(deletes, [sno |-> data.items[i].sno, resp |-> NoResponse])
  /\ UNCHANGED <<page, session, formVars, posts, data, reload, listError,
                 actionMessage, query, gets, modalVars, patches, storeVars, proxyVars>>
  /\ UNCHANGED <<adminVars, request, summaryVars>>

\* handleDelete after the await.
handleDeleteResponse(i) ==
  /\ i \in DOMAIN deletes
  /\ deletes[i].resp # NoResponse
  /\ deletes' = RemoveAt(deletes, i)
  /\ IF deletes[i].resp.ok
     THEN /\ actionMessage' = "Task deleted."
          /\ reload' = TRUE
          /\ UNCHANGED listError
     ELSE /\ listError' = resolveErrorMessage(deletes[i].resp)
          /\ UNCHANGED <<actionMessage, reload>>
  /\ UNCHANGED <<page, session, formVars, posts, data, query, gets, modalVars,
                 patches, storeVars, saves, proxyVars>>
  /\ UNCHANGED <<adminVars, request, summaryVars>>

\* ------------------------------------------------------ backend (spec 6)
Created(sno) == [ok |-> TRUE, status |-> 201, sno |-> sno, message |-> ""]
Updated(sno) == [ok |-> TRUE, status |-> 200, sno |-> sno, message |-> ""]
Unprocessable ==
  [ok |-> FALSE, status |-> 422, sno |-> 0, message |-> "Validation failed."]
NotFound ==
  [ok |-> FALSE, status |-> 404, sno |-> 0, message |-> "Task not found."]

\* POST /tasks
tasksCreate(i) ==
  /\ i \in DOMAIN posts
  /\ posts[i].resp = NoResponse
  /\ IF rawErrors(posts[i].body) = {}
     THEN /\ store' = Append(store, completeRecord(nextSno, posts[i].body))
          /\ nextSno' = nextSno + 1
          /\ posts' = [posts EXCEPT ![i].resp = Created(nextSno)]
     ELSE /\ posts' = [posts EXCEPT ![i].resp = Unprocessable]
          /\ UNCHANGED storeVars
  /\ UNCHANGED <<page, session, formVars, listVars, modalVars, patches, saves,
                 proxyVars>>
  /\ UNCHANGED <<adminVars, request, summaryVars>>

IndexOf(sno) == {j \in DOMAIN store : store[j].sno = sno}

\* The stored record a PATCH is for, and what it becomes.
stored(sno) == store[CHOOSE j \in IndexOf(sno) : TRUE]
merged(p) == mergeRaw(stored(p.sno), p.body)

\* PATCH /tasks/{sno}
tasksUpdate(i) ==
  /\ i \in DOMAIN patches
  /\ patches[i].resp = NoResponse
  /\ IF IndexOf(patches[i].sno) = {}
     THEN patches' = [patches EXCEPT ![i].resp = NotFound] /\ UNCHANGED store
     ELSE IF rawErrors(merged(patches[i])) = {}
       THEN /\ store' = [j \in DOMAIN store |->
                           IF store[j].sno = patches[i].sno
                           THEN completeRecord(store[j].sno, merged(patches[i]))
                           ELSE store[j]]
            /\ patches' = [patches EXCEPT ![i].resp = Updated(patches[i].sno)]
       ELSE /\ patches' = [patches EXCEPT ![i].resp = Unprocessable]
            /\ UNCHANGED store
  /\ UNCHANGED <<page, session, formVars, posts, listVars, modalVars, nextSno,
                 saves, proxyVars>>
  /\ UNCHANGED <<adminVars, request, summaryVars>>

\* The statuses for which the Response constructor accepts no body: given
\* one, it throws a TypeError when its body argument is not null.
nullBodyStatus == {101, 103, 204, 205, 304}

\* DELETE /tasks/{sno}: 204 on success, 404 if unknown.
Deleted == [ok |-> TRUE, status |-> 204, sno |-> 0, message |-> ""]

\* What the browser receives for a backend response that the route handler
\* hands to proxyJsonResponse: the response itself, or the 500 of a handler
\* that threw (whose body is no error envelope).
proxied(resp) ==
  IF resp.status \in nullBodyStatus
  THEN [ok |-> FALSE, status |-> 500, sno |-> 0, message |-> ""]
  ELSE resp

tasksDelete(i) ==
  /\ i \in DOMAIN deletes
  /\ deletes[i].resp = NoResponse
  /\ IF IndexOf(deletes[i].sno) = {}
     THEN /\ deletes' = [deletes EXCEPT ![i].resp = proxied(NotFound)]
          /\ UNCHANGED store
     ELSE /\ store' = RemoveAt(store, CHOOSE j \in IndexOf(deletes[i].sno) : TRUE)
          /\ deletes' = [deletes EXCEPT ![i].resp = proxied(Deleted)]
  /\ UNCHANGED <<page, session, formVars, posts, data, reload, listError,
                 actionMessage, query, gets, modalVars, patches, nextSno, saves,
                 proxyVars>>
  /\ UNCHANGED <<adminVars, request, summaryVars>>

\* GET /tasks and GET /admin/summary
tasksList(i) ==
  /\ i \in DOMAIN gets
  /\ gets[i].resp = NoData
  /\ gets' = [gets EXCEPT ![i].resp =
                IF gets[i].by = "summary" THEN summarize(store, gets[i].q.filter)
                ELSE listTasks(store, gets[i].q)]
  /\ UNCHANGED <<page, session, formVars, posts, data, reload, listError,
                 actionMessage, query, deletes, modalVars, patches, storeVars, saves,
                 proxyVars>>
  /\ UNCHANGED <<adminVars, request, summaryVars>>

\* A client of the API other than the task list (the administrator's pages,
\* a script): one request at a time, for a list or for a summary.
getTasks(by, q) ==
  /\ page = "api"
  /\ gets = <<>>
  /\ gets' = <<[by |-> by, q |-> q, resp |-> NoData]>>
  /\ UNCHANGED <<page, session, formVars, posts, data, reload, listError,
                 actionMessage, query, deletes, modalVars, patches, storeVars, saves,
                 proxyVars>>
  /\ UNCHANGED <<adminVars, request, summaryVars>>

\* The client has read the answer.
getTasksDone(i) ==
  /\ i \in DOMAIN gets
  /\ gets[i].by # "list"
  /\ gets[i].resp # NoData
  /\ gets' = RemoveAt(gets, i)
  /\ UNCHANGED <<page, session, formVars, posts, data, reload, listError,
                 actionMessage, query, deletes, modalVars, patches, storeVars, saves,
                 proxyVars>>
  /\ UNCHANGED <<adminVars, request, summaryVars>>

\* ------------------------------------- user management (users-client.tsx)
\* A row of users.xlsx as the API returns it (UserRecord).
UserRecord(username, role, is_active) ==
  [username |-> username, role |-> role, is_active |-> is_active]

\* The response to a users request not yet received.
NoUsers == <<[username |-> "", role |-> "", is_active |-> 0]>>

\* currentUser: auth.username || "" from the username cookie.
currentUser == cookieStore.username

\* toggleStatus with its guard left out.
refusesToggleNever(user) == FALSE

\* toggleStatus: the row is the signed-in administrator's own active account.
refusesToggle(user) == user.username = currentUser /\ user.is_active = 1

\* body: JSON.stringify({ is_active: user.is_active === 1 ? 0 : 1 })
statusBody(user) == [is_active |-> IF user.is_active = 1 THEN 0 ELSE 1]

\* The users effect up to its await of fetch("/api/admin/users?..."); the
\* cleanup of the previous run has aborted the request of that run.
loadUsers ==
  /\ page = "users"
  /\ usersReload
  /\ usersReload' = FALSE
  /\ usersGets' = <<NoUsers>>
  /\ UNCHANGED <<accounts, users, usersMessage, statusPatches>>
  /\ UNCHANGED <<clientVars, proxyVars, request>>

\* The users effect after the await: setUsers(payload).
loadUsersResponse(i) ==
  /\ i \in DOMAIN usersGets
  /\ usersGets[i] # NoUsers
  /\ users' = usersGets[i]
  /\ usersGets' = RemoveAt(usersGets, i)
  /\ UNCHANGED <<accounts, usersReload, usersMessage, statusPatches>>
  /\ UNCHANGED <<clientVars, proxyVars, request>>

\* toggleStatus up to its await of fetch, or to its early return.
toggleStatus(i) ==
  /\ page = "users"
  /\ i \in DOMAIN users
  /\ IF refusesToggle(users[i])
     THEN /\ usersMessage' = "You cannot disable your own account."
          /\ UNCHANGED statusPatches
     ELSE /\ Len(statusPatches) < MaxRequests
          /\ statusPatches' =
               Append(statusPatches, [username |-> users[i].username,
                                      body |-> statusBody(users[i]),
                                      resp |-> NoResponse])
          /\ UNCHANGED usersMessage
  /\ UNCHANGED <<accounts, users, usersReload, usersGets>>
  /\ UNCHANGED <<clientVars, proxyVars, request>>

\* toggleStatus after the await.
toggleStatusResponse(i) ==
  /\ i \in DOMAIN statusPatches
  /\ statusPatches[i].resp # NoResponse
  /\ statusPatches' = RemoveAt(statusPatches, i)
  /\ IF statusPatches[i].resp.ok
     THEN /\ usersMessage' = "User status updated."
          /\ usersReload' = TRUE
     ELSE /\ usersMessage' = resolveErrorMessage(statusPatches[i].resp)
          /\ UNCHANGED usersReload
  /\ UNCHANGED <<accounts, users, usersGets>>
  /\ UNCHANGED <<clientVars, proxyVars, request>>

\* GET /admin/users
usersList(i) ==
  /\ i \in DOMAIN usersGets
  /\ usersGets[i] = NoUsers
  /\ usersGets' = [usersGets EXCEPT ![i] = accounts]
  /\ UNCHANGED <<accounts, users, usersReload, usersMessage, statusPatches>>
  /\ UNCHANGED <<clientVars, proxyVars, request>>

\* PATCH /admin/users/{username}/status
usersStatus(i) ==
  /\ i \in DOMAIN statusPatches
  /\ statusPatches[i].resp = NoResponse
  /\ accounts' = [j \in DOMAIN accounts |->
                    IF accounts[j].username = statusPatches[i].username
                    THEN [accounts[j] EXCEPT !.is_active = statusPatches[i].body.is_active]
                    ELSE accounts[j]]
  /\ statusPatches' = [statusPatches EXCEPT ![i].resp =
       IF \E j \in DOMAIN accounts : accounts[j].username = statusPatches[i].username
       THEN [ok |-> TRUE, status |-> 200, sno |-> 0, message |-> ""]
       ELSE NotFound]
  /\ UNCHANGED <<users, usersReload, usersMessage, usersGets>>
  /\ UNCHANGED <<clientVars, proxyVars, request>>

\* ------------------------------ page requests (middleware.ts, requireAuth)
\* A pathname is the sequence of its segments: <<>> is "/".
Root == <<>>
LoginPage == <<"login">>
AdminTasks == <<"admin", "tasks">>
NewTask == <<"user", "new-task">>
Paths ==
  {Root, LoginPage, AdminTasks, <<"admin", "summary">>, <<"admin", "users">>,
   NewTask, <<"user", "tasks">>}

\* pathname.startsWith("/" + segment), for the paths of the matcher.
startsWith(pathname, segment) == pathname # <<>> /\ Head(pathname) = segment

\* NextResponse.redirect / redirect(), and NextResponse.next() / a page that
\* renders.
Redirect(to) == [redirect |-> TRUE, to |-> to]
Pass == [redirect |-> FALSE, to |-> Root]

\* middleware sending everyone it turns away from /admin to /login.
middlewareToLogin(pathname, cookies) ==
  IF startsWith(pathname, "login")
  THEN (IF cookies.token # "" /\ cookies.role # ""
        THEN Redirect(IF cookies.role = "admin" THEN AdminTasks ELSE NewTask)
        ELSE Pass)
  ELSE IF pathname = Root
  THEN (IF cookies.token = "" \/ cookies.role = "" THEN Redirect(LoginPage)
        ELSE Redirect(IF cookies.role = "admin" THEN AdminTasks ELSE NewTask))
  ELSE IF startsWith(pathname, "admin") /\ cookies.role # "admin"
  THEN Redirect(LoginPage)
  ELSE IF cookies.token = "" \/ cookies.role = "" THEN Redirect(LoginPage)
  ELSE Pass

middleware(pathname, cookies) ==
  IF startsWith(pathname, "login")
  THEN (IF cookies.token # "" /\ cookies.role # ""
        THEN Redirect(IF cookies.role = "admin" THEN AdminTasks ELSE NewTask)
        ELSE Pass)
  ELSE IF pathname = Root
  THEN (IF cookies.token = "" \/ cookies.role = "" THEN Redirect(LoginPage)
        ELSE Redirect(IF cookies.role = "admin" THEN AdminTasks ELSE NewTask))
  ELSE IF startsWith(pathname, "admin") /\ (cookies.token = "" \/ cookies.role = "")
  THEN Redirect(LoginPage)
  ELSE IF startsWith(pathname, "admin") /\ cookies.role # "admin"
  THEN Redirect(NewTask)
  ELSE IF startsWith(pathname, "user") /\ (cookies.token = "" \/ cookies.role = "")
  THEN Redirect(LoginPage)
  ELSE Pass

requireAuth(allowedRoles, cookies) ==
  IF cookies.token = "" \/ cookies.role = "" THEN Redirect(LoginPage)
  ELSE IF cookies.role \notin allowedRoles
  THEN (IF cookies.role = "admin" THEN Redirect(AdminTasks) ELSE Redirect(NewTask))
  ELSE Pass

\* The page of "/".
Home(cookies) ==
  IF cookies.token = "" \/ cookies.role = "" THEN Redirect(LoginPage)
  ELSE IF cookies.role = "admin" THEN Redirect(AdminTasks)
  ELSE Redirect(NewTask)

\* The server component of a path: the pages under /admin call
\* requireAuth(["admin"]), those under /user requireAuth(["user", "admin"]).
pageComponent(pathname, cookies) ==
  IF pathname = Root THEN Home(cookies)
  ELSE IF startsWith(pathname, "admin") THEN requireAuth({"admin"}, cookies)
  ELSE IF startsWith(pathname, "user") THEN requireAuth({"user", "admin"}, cookies)
  ELSE Pass

\* The path a page request is at.
pathname == request.trail[Len(request.trail)]

\* The browser asks for a page.
navigate(path) ==
  /\ request.stage \in {"none", "rendered"}
  /\ request' = [trail |-> <<path>>, stage |-> "middleware"]
  /\ UNCHANGED <<clientVars, proxyVars, adminVars>>

\* The browser follows a redirect: a new request, through the middleware.
followed(to) ==
  [trail |-> Append(request.trail, to), stage |-> "middleware"]

\* The middleware handles the request.
middlewareStep ==
  /\ request.stage = "middleware"
  /\ IF middleware(pathname, cookieStore).redirect
     THEN /\ Len(request.trail) <= MaxRedirects
          /\ request' = followed(middleware(pathname, cookieStore).to)
     ELSE request' = [request EXCEPT !.stage = "page"]
  /\ UNCHANGED <<clientVars, proxyVars, adminVars>>

\* The page's server component runs: it redirects or renders.
pageStep ==
  /\ request.stage = "page"
  /\ IF pageComponent(pathname, cookieStore).redirect
     THEN /\ Len(request.trail) <= MaxRedirects
          /\ request' = followed(pageComponent(pathname, cookieStore).to)
     ELSE request' = [request EXCEPT !.stage = "rendered"]
  /\ UNCHANGED <<clientVars, proxyVars, adminVars>>

\* ------------------------------------------------- Next.js proxy (api.ts)
\* The route handlers under app/api, by what they forward to.
Routes ==
  {"auth/login", "auth/logout", "admin/summary", "admin/users GET",
   "admin/users POST", "admin/users/reset-password", "tasks/[sno] PATCH",
   "tasks/[sno] DELETE"}

\* A response: its status, the code of the error envelope in its body ("" in
\* a success body), its content-type header ("" when absent) and, in the body
\* of a successful login, the role.
Response(status, code, contentType, role) ==
  [status |-> status, code |-> code, contentType |-> contentType, role |-> role]

NoReply == Response(0, "", "", "")

\* NextResponse.json(body, {status})
JsonResponse(status, code) == Response(status, code, "application/json", "")

\* What the backend answers on a route (spec 6 and 7): success, or the error
\* envelope with the code of the failure class.
BackendReplies(route) ==
  CASE route = "auth/login" ->
         {Response(200, "", "application/json", "admin"),
          Response(200, "", "application/json", "user"),
          JsonResponse(401, "AuthError")}
    [] route = "tasks/[sno] PATCH" ->
         {JsonResponse(200, ""), JsonResponse(404, "NotFoundError"),
          JsonResponse(422, "ValidationError")}
    [] route = "tasks/[sno] DELETE" ->
         {Response(204, "", "", ""), JsonResponse(404, "NotFoundError")}
    [] route = "admin/users POST" ->
         {JsonResponse(201, ""), JsonResponse(422, "ValidationError")}
    [] route = "admin/users/reset-password" ->
         {JsonResponse(200, ""), JsonResponse(404, "NotFoundError")}
    [] OTHER -> {JsonResponse(200, ""), JsonResponse(403, "AuthError")}

\* Response.ok
ok(res) == res.status >= 200 /\ res.status <= 299

\* The catch branch answering as a missing token does: a faulty variant.
unreachableAsNotAuthorized == JsonResponse(401, "NOT_AUTHORIZED")

\* The catch branch of forwardRequest.
unreachableResponse == JsonResponse(502, "BACKEND_UNREACHABLE")

\* The answers of a route handler that does not forward.
notAuthorized == JsonResponse(401, "NOT_AUTHORIZED")
loginRequired == JsonResponse(400, "VALIDATION_ERROR")

\* What the client receives when a route handler throws.
internalServerError == Response(500, "", "text/plain", "")

\* new Response(text, {status, headers}): text is a string, never null (the
\* empty string for an empty body), so the constructor throws for a null
\* body status and the handler's promise rejects.
proxyJsonResponse(res) ==
  IF res.status \in nullBodyStatus THEN internalServerError
  ELSE Response(res.status, res.code,
                IF res.contentType # "" THEN res.contentType ELSE "application/json",
                res.role)

\* forwardRequest that never sets the Authorization header: a faulty variant.
bearerNone(token) == ""

\* The Bearer credential of the Authorization header forwardRequest sets
\* ("" when it sets none).
bearer(token) == IF token # "" THEN token ELSE ""

\* An invocation of a route handler: stage is where it stands ("forward": at
\* its await of forwardRequest, "return": forwardRequest has returned,
\* "done": the handler has answered with out); fetches counts the calls of
\* fetch made for it, threw tells that fetch threw; res is what
\* forwardRequest returned.
\* token is the token cookie the handler read, sent the Authorization header
\* of the request it made ("" when none).
NewCall(route, stage, out) ==
  [route |-> route, stage |-> stage, fetches |-> 0, threw |-> FALSE,
   token |-> IF route \in {"auth/login", "auth/logout"} THEN "" ELSE cookieStore.token,
   sent |-> "", res |-> NoReply, out |-> out]

\* A route handler up to its await of forwardRequest.  complete: the login
\* payload has a username and a password.
routeHandler(route, complete) ==
  /\ Len(calls) < MaxRequests
  /\ IF route = "auth/logout"
     THEN /\ cookieStore' = NoCookies
          /\ calls' = Append(calls, NewCall(route, "done", JsonResponse(200, "")))
     ELSE /\ UNCHANGED cookieStore
          /\ calls' = Append(calls,
               IF route = "auth/login"
               THEN (IF complete THEN NewCall(route, "forward", NoReply)
                     ELSE NewCall(route, "done", loginRequired))
               ELSE (IF cookieStore.token = ""
                     THEN NewCall(route, "done", notAuthorized)
                     ELSE NewCall(route, "forward", NoReply)))
  /\ UNCHANGED clientVars
  /\ UNCHANGED <<adminVars, request, summaryVars>>

\* forwardRequest: one call of fetch, which returns the reply of the backend
\* or throws when the backend cannot be reached.
forwardRequest(i, reached, reply) ==
  /\ i \in DOMAIN calls
  /\ calls[i].stage = "forward"
  /\ calls' = [calls EXCEPT
       ![i].stage = "return",
       ![i].fetches = @ + 1,
       ![i].sent = bearer(calls[i].token),
       ![i].threw = ~reached,
       ![i].res = IF reached THEN reply ELSE unreachableResponse]
  /\ UNCHANGED <<clientVars, cookieStore>>
  /\ UNCHANGED <<adminVars, request, summaryVars>>

\* The login handler keeping the username cookie it finds: a faulty variant.
loginCookiesKeepUsername(res) ==
  [token |-> IF res.role = "admin" THEN AdminSession.token ELSE UserSession.token,
   role |-> res.role,
   username |-> cookieStore.username]

\* cookieStore.set token, role, username from data.access_token, data.role,
\* data.username of the login response: the account of the response's role.
loginCookies(res) == IF res.role = "admin" THEN AdminSession ELSE UserSession

\* The rest of a route handler: the login handler sets the cookies on success;
\* everything else is proxyJsonResponse(response).
routeReturn(i) ==
  /\ i \in DOMAIN calls
  /\ calls[i].stage = "return"
  /\ IF calls[i].route = "auth/login" /\ ok(calls[i].res)
     THEN /\ cookieStore' = loginCookies(calls[i].res)
          /\ calls' = [calls EXCEPT ![i].stage = "done",
                                    ![i].out = JsonResponse(200, "")]
     ELSE /\ UNCHANGED cookieStore
          /\ calls' = [calls EXCEPT ![i].stage = "done",
                                    ![i].out = proxyJsonResponse(calls[i].res)]
  /\ UNCHANGED clientVars
  /\ UNCHANGED <<adminVars, request, summaryVars>>

\* --------------------------------------------------------- specifications
\* The new-task page with the backend behind it.
NextForm ==
  \/ \E key \in RawFields : \E typed \in FormInputs(key) : handleChange(key, typed)
  \/ \E value \in {TxtPaddedSZ} : setOtherSubdivision(value)
  \/ handleClear
  \/ \E name \in {"Blank", "Example"} : handleTemplateChange(name)
  \/ handleSubmit
  \/ \E i \in DOMAIN posts : tasksCreate(i)
  \/ \E i \in DOMAIN posts : handleSubmitResponse(i)

SpecForm == Init /\ [][NextForm]_vars

\* What the new-task page sends for the example template and for the template
\* with 1e2 works completed (which handleSubmit lets through).
PostSamples ==
  {submitPayload(ExampleTemplate, <<>>),
   submitPayload([ExampleTemplate EXCEPT !.works_completed = Txt1e2], <<>>)}

\* The task list page just mounted, after the new-task page has sent
\* MaxRecords submissions that are still on their way.
InitList ==
  /\ page = "tasks"
  /\ NewSession
  /\ FormMounted
  /\ posts \in [1..MaxRecords ->
                  {[body |-> b, resp |-> NoResponse, live |-> FALSE] : b \in PostSamples}]
  /\ ListMounted
  /\ ModalClosed
  /\ patches = <<>>
  /\ EmptyStore
  /\ SignedIn
  /\ NoAccounts
  /\ UsersMounted
  /\ AtRest
  /\ SummaryMounted

\* The task list page with the backend behind it.
NextList ==
  \/ \E i \in DOMAIN posts : tasksCreate(i)
  \/ \E i \in DOMAIN posts : handleSubmitResponse(i)
  \/ loadTasks
  \/ \E i \in DOMAIN gets : tasksList(i)
  \/ \E i \in DOMAIN gets : loadResponse(i)
  \/ \E i \in DOMAIN data.items : setEditing(i)
  \/ onClose
  \/ \E key \in RawFields : \E value \in ModalInputs(key) : setForm(key, value)
  \/ handleSave
  \/ \E i \in DOMAIN patches : tasksUpdate(i)
  \/ \E i \in DOMAIN patches : handleSaveResponse(i)

SpecList == InitList /\ [][NextList]_vars

\* The record the list shows once the example has been submitted.
ExampleRecord == completeRecord(1, submitPayload(ExampleTemplate, <<>>))

\* The task list page just mounted over a store that holds the example record.
InitRefresh ==
  /\ page = "tasks"
  /\ NewSession
  /\ FormMounted
  /\ posts = <<>>
  /\ ListMounted
  /\ ModalClosed
  /\ patches = <<>>
  /\ store = <<ExampleRecord>>
  /\ nextSno = 2
  /\ saves = 0
  /\ SignedIn
  /\ NoAccounts
  /\ UsersMounted
  /\ AtRest
  /\ SummaryMounted

\* The task list page: loading, changing the query, editing and deleting.
NextRefresh ==
  \/ loadTasks
  \/ \E i \in DOMAIN gets : tasksList(i)
  \/ \E i \in DOMAIN gets : loadResponse(i)
  \/ \E size \in PageSizes : changeQuery("page_size", size)
  \/ \E i \in DOMAIN data.items : setEditing(i)
  \/ onClose
  \/ \E key \in RawFields : \E value \in ModalInputs(key) : setForm(key, value)
  \/ handleSave
  \/ \E i \in DOMAIN patches : tasksUpdate(i)
  \/ \E i \in DOMAIN patches : handleSaveResponse(i)
  \/ \E i \in DOMAIN data.items : handleDelete(i)
  \/ \E i \in DOMAIN deletes : tasksDelete(i)
  \/ \E i \in DOMAIN deletes : handleDeleteResponse(i)

SpecRefresh == InitRefresh /\ [][NextRefresh]_vars

\* The edit modal over the same store, with a text its validation rejects
\* among those typed.
NextModal ==
  \/ loadTasks
  \/ \E i \in DOMAIN gets : tasksList(i)
  \/ \E i \in DOMAIN gets : loadResponse(i)
  \/ \E i \in DOMAIN data.items : setEditing(i)
  \/ onClose
  \/ \E key \in RawFields : \E value \in ModalInputs(key) \cup {TxtMinus1} :
       key = "works_completed" /\ setForm(key, value)
  \/ handleSave
  \/ \E i \in DOMAIN patches : tasksUpdate(i)
  \/ \E i \in DOMAIN patches : handleSaveResponse(i)

SpecModal == InitRefresh /\ [][NextModal]_vars

\* The user-management screen of the administrator head, just mounted, over
\* accounts of which each may be active or not.
InitUsers ==
  /\ page = "users"
  /\ NewSession
  /\ FormMounted
  /\ posts = <<>>
  /\ ListMounted
  /\ ModalClosed
  /\ patches = <<>>
  /\ EmptyStore
  /\ cookieStore = AdminSession
  /\ calls = <<>>
  /\ \E a \in {0, 1} : \E b \in {0, 1} :
       accounts = <<UserRecord("head", "admin", a), UserRecord("clerk", "user", b)>>
  /\ UsersMounted
  /\ AtRest
  /\ SummaryMounted

NextUsers ==
  \/ loadUsers
  \/ \E i \in DOMAIN usersGets : usersList(i)
  \/ \E i \in DOMAIN usersGets : loadUsersResponse(i)
  \/ \E i \in DOMAIN users : toggleStatus(i)
  \/ \E i \in DOMAIN statusPatches : usersStatus(i)
  \/ \E i \in DOMAIN statusPatches : toggleStatusResponse(i)

SpecUsers == InitUsers /\ [][NextUsers]_vars

\* Every state of the token and role cookies: each absent or present, the role
\* user, admin or one that is neither.
CookieStates ==
  {[token |-> t, role |-> r, username |-> IF t = "" THEN "" ELSE "clerk"] :
     t \in {"", "jwt"}, r \in {"", "user", "admin", "guest"}}

\* A browser with any cookies, asking for pages.
InitPages ==
  /\ page = "none"
  /\ NewSession
  /\ FormMounted
  /\ posts = <<>>
  /\ ListMounted
  /\ ModalClosed
  /\ patches = <<>>
  /\ EmptyStore
  /\ cookieStore \in CookieStates
  /\ calls = <<>>
  /\ NoAccounts
  /\ UsersMounted
  /\ AtRest
  /\ SummaryMounted

NextPages ==
  \/ \E path \in Paths : navigate(path)
  \/ middlewareStep
  \/ pageStep

SpecPages == InitPages /\ [][NextPages]_vars

\* A browser without cookies: logging in and out, and asking for pages.
InitSession ==
  /\ page = "login"
  /\ NewSession
  /\ FormMounted
  /\ posts = <<>>
  /\ ListMounted
  /\ ModalClosed
  /\ patches = <<>>
  /\ EmptyStore
  /\ cookieStore = NoCookies
  /\ calls = <<>>
  /\ NoAccounts
  /\ UsersMounted
  /\ AtRest
  /\ SummaryMounted

NextSession ==
  \/ \E route \in {"auth/login", "auth/logout"} : \E complete \in BOOLEAN :
       routeHandler(route, complete)
  \/ \E i \in DOMAIN calls : \E reply \in BackendReplies(calls[i].route) :
       forwardRequest(i, TRUE, reply)
  \/ \E i \in DOMAIN calls : routeReturn(i)
  \/ \E path \in {AdminTasks, NewTask} : navigate(path)
  \/ middlewareStep
  \/ pageStep

SpecSession == InitSession /\ [][NextSession]_vars

\* A second record: another sub-division, account code Spill, 5 works done.
SpillRecord(sno) ==
  completeRecord(sno, submitPayload([ExampleTemplate EXCEPT !.sub_division = <<"s", "z">>,
                                                            !.account_code = "Spill",
                                                            !.works_completed = Txt5],
                                    <<>>))

\* Stores of up to MaxStored records, numbered in the order of their creation.
MaxStored == 3
Stores ==
  UNION {[1..n -> {"example", "spill"}] : n \in 0..MaxStored}
recordsOf(kinds) ==
  [i \in DOMAIN kinds |->
     IF kinds[i] = "spill" THEN SpillRecord(i) ELSE completeRecord(i, rawOf(ExampleRecord))]

\* The values the controls of the list screen are changed to.
ControlValues ==
  [sub_division |-> {<<>>, <<"r", "k">>},
   account_code |-> {"All", "Spill"},
   date_from |-> {"", "2025-01-01"},
   date_to |-> {"", "2025-06-30"},
   sort_by |-> {"created_at", "works_completed"},
   order |-> {"desc", "asc"},
   page_size |-> {25, 50}]

\* The controls of which a run has at most one away from its initial value.
OtherControls ==
  {"sub_division", "account_code", "date_from", "date_to", "sort_by", "order"}

\* One record more than the smallest page holds, the last one with account
\* code Spill.
FullPageAndOne ==
  [i \in 1..((CHOOSE s \in PageSizes : \A t \in PageSizes : s <= t) + 1) |->
     IF i = 1 THEN "spill" ELSE "example"]

\* The list screen or the summary screen over a store of two pages.
InitPaging ==
  /\ page \in {"tasks", "summary"}
  /\ NewSession
  /\ FormMounted
  /\ posts = <<>>
  /\ ListMounted
  /\ ModalClosed
  /\ patches = <<>>
  /\ store = recordsOf(FullPageAndOne)
  /\ nextSno = Len(FullPageAndOne) + 1
  /\ saves = 0
  /\ SignedIn
  /\ NoAccounts
  /\ UsersMounted
  /\ AtRest
  /\ SummaryMounted

NextPaging ==
  \/ loadTasks
  \/ \E i \in DOMAIN gets : tasksList(i)
  \/ \E i \in DOMAIN gets : loadResponse(i)
  \/ \E value \in ControlValues.page_size : changeQuery("page_size", value)
  \/ \E key \in OtherControls : \E value \in ControlValues[key] :
       /\ \A k \in OtherControls \ {key} : query[k] = initialQuery[k]
       /\ changeQuery(key, value)
  \/ \E step \in {-1, 1} : setPage(step)
  \/ loadSummary
  \/ \E i \in DOMAIN gets : summaryResponse(i)
  \/ \E key \in {"sub_division", "account_code"} :
       \E value \in ControlValues[key] : changeSummaryQuery(key, value)

SpecPaging == InitPaging /\ [][NextPaging]_vars

\* Filters: none, a sub-division part in another case, an account code, and
\* one that no record matches.
Filters ==
  {NoFilter,
   [sub_division |-> <<"r", "k">>, account_code |-> ""],
   [sub_division |-> <<>>, account_code |-> "Spill"],
   [sub_division |-> <<"x">>, account_code |-> ""]}

\* List queries: every page and page size (0: left out) under every filter,
\* and every sort column and order, among them an unknown column.
Queries ==
  {[sort_by |-> "sno", order |-> "asc", page |-> p, page_size |-> ps, filter |-> f] :
     p \in 0..3, ps \in {0, 1, 2, MaxPageSize + 1}, f \in Filters}
  \cup
  {[sort_by |-> sb, order |-> o, page |-> 1, page_size |-> 0, filter |-> NoFilter] :
     sb \in {"sno", "works_completed", "priority"}, o \in {"asc", "desc"}}

\* The backend over some store, used by the task list page or directly.
InitQuery ==
  /\ page \in {"tasks", "api"}
  /\ NewSession
  /\ FormMounted
  /\ posts = <<>>
  /\ ListMounted
  /\ ModalClosed
  /\ patches = <<>>
  /\ \E kinds \in Stores : store = recordsOf(kinds) /\ nextSno = Len(kinds) + 1
  /\ saves = 0
  /\ SignedIn
  /\ NoAccounts
  /\ UsersMounted
  /\ AtRest
  /\ SummaryMounted

NextQuery ==
  \/ loadTasks
  \/ \E size \in PageSizes : changeQuery("page_size", size)
  \/ \E q \in Queries : getTasks("api", q)
  \/ \E f \in Filters : getTasks("summary", [filter |-> f])
  \/ \E i \in DOMAIN gets : tasksList(i)
  \/ \E i \in DOMAIN gets : loadResponse(i)
  \/ \E i \in DOMAIN gets : getTasksDone(i)

SpecQuery == InitQuery /\ [][NextQuery]_vars

\* Every combination of the sample texts in the fields of the new-task form
\* (numeric fields hold what their inputs let through) ...
FormTexts ==
  {[sub_division |-> sd, account_code |-> ac,
    number_of_works |-> numberInputValue(nw),
    estimate_amount |-> numberInputValue(ea),
    agreement_amount |-> numberInputValue(aa),
    exp_upto_31_03_2025 |-> numberInputValue(e31),
    exp_upto_last_month |-> Txt100,
    exp_during_this_month |-> Txt50,
    works_completed |-> numberInputValue(wc)] :
      sd \in {TxtRKV1, OtherOption, <<>>},
      ac \in FieldSamples("account_code"),
      nw \in FieldSamples("number_of_works"),
      ea \in FieldSamples("estimate_amount"),
      aa \in FieldSamples("agreement_amount"),
      e31 \in FieldSamples("exp_upto_31_03_2025"),
      wc \in FieldSamples("works_completed")}

\* ... and in the fields of the edit modal.
ModalTexts ==
  {[sub_division |-> sd, account_code |-> ac,
    number_of_works |-> nw, estimate_amount |-> ea,
    agreement_amount |-> aa, exp_upto_31_03_2025 |-> e31,
    exp_upto_last_month |-> Txt100, exp_during_this_month |-> Txt50,
    works_completed |-> wc] :
      sd \in FieldSamples("sub_division"),
      ac \in FieldSamples("account_code"),
      nw \in FieldSamples("number_of_works"),
      ea \in FieldSamples("estimate_amount"),
      aa \in FieldSamples("agreement_amount"),
      e31 \in FieldSamples("exp_upto_31_03_2025"),
      wc \in FieldSamples("works_completed")}

\* The new-task form filled with any combination of the sample texts, or the
\* edit modal open on the example record with any combination typed over it.
InitInputs ==
  /\ NewSession
  /\ posts = <<>>
  /\ patches = <<>>
  /\ saves = 0
  /\ errors = EmptyMap
  /\ loading = FALSE
  /\ message = NoMessage
  /\ listError = ""
  /\ actionMessage = ""
  /\ query = initialQuery
  /\ gets = <<>>
  /\ deletes = <<>>
  /\ taskErrors = EmptyMap
  /\ saving = FALSE
  /\ SignedIn
  /\ \/ /\ page = "new-task"
        /\ form \in FormTexts
        /\ otherSubdivision \in
             (IF form.sub_division = OtherOption THEN {TxtPaddedSZ, TxtBlank}
              ELSE {<<>>})
        /\ store = <<>>
        /\ nextSno = 1
        /\ data = NoData
        /\ reload = TRUE
        /\ editing = NoTask
        /\ taskForm = emptyForm
        /\ dirty = {}
     \/ /\ page = "tasks"
        /\ form = emptyForm
        /\ otherSubdivision = <<>>
        /\ store = <<ExampleRecord>>
        /\ nextSno = 2
        /\ data = listTasks(store, sentQuery(initialQuery))
        /\ reload = FALSE
        /\ editing = ExampleRecord
        /\ taskForm \in ModalTexts
        /\ dirty = {key \in RawFields : taskForm[key] # initialTaskForm(editing)[key]}
  /\ formComputed = computed(form)
  /\ taskComputed = modalComputed(taskForm)
  /\ NoAccounts
  /\ UsersMounted
  /\ AtRest
  /\ SummaryMounted

\* The forms as filled, one more keystroke, and the two submit handlers.
NextInputs ==
  \/ \E typed \in {Txt0p5} : handleChange("exp_during_this_month", typed)
  \/ \E value \in {Txt75} : setForm("exp_during_this_month", value)
  \/ handleSubmit
  \/ handleSave

SpecInputs == InitInputs /\ [][NextInputs]_vars

\* The proxy alone: a browser with or without a session cookie.
InitProxy ==
  /\ page = "login"
  /\ NewSession
  /\ FormMounted
  /\ posts = <<>>
  /\ ListMounted
  /\ ModalClosed
  /\ patches = <<>>
  /\ EmptyStore
  /\ cookieStore \in {NoCookies, UserSession, AdminSession}
  /\ calls = <<>>
  /\ NoAccounts
  /\ UsersMounted
  /\ AtRest
  /\ SummaryMounted

NextProxy ==
  \/ \E route \in Routes : \E complete \in BOOLEAN : routeHandler(route, complete)
  \/ \E i \in DOMAIN calls : \E reply \in BackendReplies(calls[i].route) :
       forwardRequest(i, TRUE, reply)
  \/ \E i \in DOMAIN calls : forwardRequest(i, FALSE, NoReply)
  \/ \E i \in DOMAIN calls : routeReturn(i)

SpecProxy == InitProxy /\ [][NextProxy]_vars

\* ================================================================ claims
\* What a text of a form field denotes.
IsBlank(t) == Trim(t) = <<>>
NumericText(t) == ~IsBlank(t) /\ ~isNaN(ToNumber(t))
WholeText(t) == ~IsBlank(t) /\ IsInteger(ToNumber(t))
DecimalText(t) == ~IsBlank(t) /\ isFinite(ToNumber(t))
NegativeText(t) == NumericText(t) /\ Less(ToNumber(t), Whole(0))
OfDeclaredType(key, t) ==
  IF key \in Range(intFields) THEN WholeText(t) ELSE DecimalText(t)
TypeOf(key) == IF key \in Range(intFields) THEN "int" ELSE "float"
TypeMessage(key) ==
  IF key \in Range(intFields) THEN "Enter a whole number." ELSE "Enter a valid number."

\* The record invariants on a payload (spec 3), with sub_division trimmed.
PayloadValid(b) == rawErrors(b) = {} /\ b.sub_division = Trim(b.sub_division)

\* C1: every payload that handleSubmit or handleSave has sent satisfies the
\* record invariants: account_code is Spill or New, sub_division is non-empty
\* and trimmed, the two counts are non-negative integers, the five amounts are
\* non-negative numbers, works_completed <= number_of_works and
\* agreement_amount >= exp_upto_31_03_2025.
C1_PayloadsValid ==
  /\ \A i \in DOMAIN posts : PayloadValid(posts[i].body)
  /\ \A i \in DOMAIN patches : PayloadValid(patches[i].body)

\* The texts of works_completed and number_of_works are numbers and the
\* first exceeds the second.
WorksExceed(f) ==
  /\ NumericText(f.works_completed)
  /\ NumericText(f.number_of_works)
  /\ Less(ToNumber(f.number_of_works), ToNumber(f.works_completed))

\* C2: whenever handleSubmit or handleSave validates a form in which
\* works_completed > number_of_works, the error map it sets has an entry for
\* works_completed, whatever the other fields hold.
C2_WorksCompletedFlagged ==
  [][/\ (handleSubmit /\ WorksExceed(form))
          => "works_completed" \in DOMAIN errors'
     /\ (handleSave /\ WorksExceed(taskForm))
          => "works_completed" \in DOMAIN taskErrors']_vars

\* The texts of exp_upto_31_03_2025 and agreement_amount are numbers and the
\* first exceeds the second.
ExpExceeds(f) ==
  /\ NumericText(f.exp_upto_31_03_2025)
  /\ NumericText(f.agreement_amount)
  /\ Less(ToNumber(f.agreement_amount), ToNumber(f.exp_upto_31_03_2025))

\* C3 as stated: whenever handleSubmit or handleSave validates a form in which
\* exp_upto_31_03_2025 > agreement_amount, the error map has an entry for
\* exp_upto_31_03_2025 and no payload is sent.
C3_ExpFlagged ==
  [][/\ (handleSubmit /\ ExpExceeds(form))
          => ("exp_upto_31_03_2025" \in DOMAIN errors' /\ posts' = posts)
     /\ (handleSave /\ ExpExceeds(taskForm))
          => ("exp_upto_31_03_2025" \in DOMAIN taskErrors' /\ patches' = patches)]_vars

\* What validation reports for a form in which exp_upto_31_03_2025 exceeds
\* agreement_amount: the error is on exp_upto_31_03_2025, unless
\* agreement_amount is negative, and then agreement_amount carries
\* "Must be non-negative.".
ExpReported(f, e) ==
  IF NegativeText(f.agreement_amount)
  THEN /\ "agreement_amount" \in DOMAIN e
       /\ e["agreement_amount"] = "Must be non-negative."
  ELSE "exp_upto_31_03_2025" \in DOMAIN e

\* C3 amended: whenever handleSubmit or handleSave validates a form in which
\* exp_upto_31_03_2025 > agreement_amount, validation fails and no payload is
\* sent; the error is on exp_upto_31_03_2025 when agreement_amount is itself
\* non-negative, and on agreement_amount ("Must be non-negative.") otherwise.
C3_ExpBlocked ==
  [][/\ (handleSubmit /\ ExpExceeds(form))
          => (ExpReported(form, errors') /\ posts' = posts)
     /\ (handleSave /\ ExpExceeds(taskForm))
          => (ExpReported(taskForm, taskErrors') /\ patches' = patches)]_vars

\* C3 witness: the new-task form with 950 spent against an agreement of 900
\* has been validated and carries the cross-field error.
C3_Witness ==
  /\ page = "new-task"
  /\ form.agreement_amount = Txt900
  /\ form.exp_upto_31_03_2025 = Txt950
  /\ "exp_upto_31_03_2025" \in DOMAIN errors
  /\ errors["exp_upto_31_03_2025"] =
       "Expenditure up to 31-03-2025 must be <= Agreement Amount."
  /\ posts = <<>>

NegativeReported(f, e) ==
  \A key \in NumericFields :
    NegativeText(f[key]) =>
      (key \in DOMAIN e /\ e[key] = "Must be non-negative.")

\* C4: whenever handleSubmit or handleSave validates a form, every numeric
\* field whose text is a negative number gets the error "Must be non-negative.".
C4_NegativeFlagged ==
  [][/\ handleSubmit => NegativeReported(form, errors')
     /\ handleSave => NegativeReported(taskForm, taskErrors')]_vars

\* The per-field rules: presence, type, non-negativity of a numeric field.
FieldViolates(key, t) ==
  IsBlank(t) \/ ~OfDeclaredType(key, t) \/ NegativeText(t)

AllReported(f, subdivision, e) ==
  /\ \A key \in NumericFields : FieldViolates(key, f[key]) => key \in DOMAIN e
  /\ IsBlank(subdivision) => "sub_division" \in DOMAIN e
  /\ f.account_code \notin {"Spill", "New"} => "account_code" \in DOMAIN e

\* C5: whenever handleSubmit or handleSave validates a form, the error map has
\* an entry for every field that violates a per-field rule (presence, type,
\* non-negativity, sub_division non-empty, account_code Spill or New).
C5_AllErrorsCollected ==
  [][/\ handleSubmit
          => AllReported(form, resolvedSubdivision(form, otherSubdivision), errors')
     /\ handleSave
          => AllReported(taskForm, taskForm.sub_division, taskErrors')]_vars

TypeReported(f, e) ==
  \A key \in NumericFields :
    (~IsBlank(f[key]) /\ ~OfDeclaredType(key, f[key])) =>
      (key \in DOMAIN e /\ e[key] = TypeMessage(key))

\* The payload carries, for every numeric field, the value validation accepted.
AcceptedSent(f, body) ==
  \A key \in NumericFields :
    body[key] = JsonNumber(parseNumber(f[key], TypeOf(key)).value)

\* C6: whenever handleSubmit or handleSave validates a form, every numeric
\* field whose text is not a number of its declared type gets "Enter a whole
\* number." or "Enter a valid number." and nothing is sent; and a payload that
\* is sent carries for each numeric field the value that validation accepted.
C6_TypeChecked ==
  [][/\ handleSubmit =>
          /\ TypeReported(form, errors')
          /\ (errors' # EmptyMap => posts' = posts)
          /\ (posts' # posts => AcceptedSent(form, posts'[Len(posts')].body))
     /\ handleSave =>
          /\ TypeReported(taskForm, taskErrors')
          /\ (taskErrors' # EmptyMap => patches' = patches)
          /\ (patches' # patches
                => AcceptedSent(taskForm, patches'[Len(patches')].body))]_vars

\* Valid raw inputs (spec 3 and 4.1): every numeric field is present, of its
\* declared type and non-negative, works_completed <= number_of_works and
\* exp_upto_31_03_2025 <= agreement_amount.
ValidNumbers(f) ==
  /\ \A key \in NumericFields :
       OfDeclaredType(key, f[key]) /\ ~NegativeText(f[key])
  /\ ~Less(ToNumber(f.number_of_works), ToNumber(f.works_completed))
  /\ ~Less(ToNumber(f.agreement_amount), ToNumber(f.exp_upto_31_03_2025))

\* The four derivation formulas on the numbers the texts denote.
Derived(f) ==
  [balanceAmount |->
     Fin(ToNumber(f.agreement_amount).v - ToNumber(f.exp_upto_31_03_2025).v),
   totalYear |->
     Fin(ToNumber(f.exp_upto_last_month).v + ToNumber(f.exp_during_this_month).v),
   totalValue |->
     Fin(ToNumber(f.exp_upto_31_03_2025).v + ToNumber(f.exp_upto_last_month).v
           + ToNumber(f.exp_during_this_month).v),
   balanceWorks |->
     Fin(ToNumber(f.number_of_works).v - ToNumber(f.works_completed).v)]

\* C7: for valid raw inputs the derived fields the new-task form and the edit
\* modal compute are agreement_amount - exp_upto_31_03_2025,
\* exp_upto_last_month + exp_during_this_month, exp_upto_31_03_2025 + that
\* total, and number_of_works - works_completed.
C7_DerivedFields ==
  /\ (page = "new-task" /\ ValidNumbers(form)) => formComputed = Derived(form)
  /\ (editing # NoTask /\ ValidNumbers(taskForm)) => taskComputed = Derived(taskForm)

\* C7 witness: the worked example (900/400/100/50 with 10 works and 4
\* completed shows 500, 150, 550 and 6) after 0.5 has been typed over the 50:
\* the form shows 500, 100.5, 500.5 and 6.
C7_Witness ==
  /\ page = "new-task"
  /\ form.number_of_works = Txt10 /\ form.works_completed = Txt4
  /\ form.agreement_amount = Txt900 /\ form.exp_upto_31_03_2025 = Txt400
  /\ form.exp_upto_last_month = Txt100 /\ form.exp_during_this_month = Txt0p5
  /\ formComputed =
       [balanceAmount |-> Whole(500), totalYear |-> Fin(100 * Unit + Unit \div 2),
        totalValue |-> Fin(500 * Unit + Unit \div 2), balanceWorks |-> Whole(6)]

\* The derivation formulas hold on a stored record.
DerivedCurrent(rec) ==
  /\ DOMAIN rec = {"sno"} \cup RawFields \cup DerivedFields
  /\ rec.balance_amount_as_on_01_04_2025 =
       Fin(rec.agreement_amount.v - rec.exp_upto_31_03_2025.v)
  /\ rec.total_exp_during_year =
       Fin(rec.exp_upto_last_month.v + rec.exp_during_this_month.v)
  /\ rec.total_value_work_done_from_beginning =
       Fin(rec.exp_upto_31_03_2025.v + rec.exp_upto_last_month.v
             + rec.exp_during_this_month.v)
  /\ rec.balance_works = Fin(rec.number_of_works.v - rec.works_completed.v)

\* C8: after any sequence of creates and updates every stored record's four
\* derived fields equal the derivation formulas on its current raw fields,
\* and the payloads of the clients carry the nine raw fields and nothing else.
C8_DerivedRecomputed ==
  /\ \A i \in DOMAIN posts : DOMAIN posts[i].body = RawFields
  /\ \A i \in DOMAIN patches : DOMAIN patches[i].body = RawFields
  /\ \A j \in DOMAIN store : DerivedCurrent(store[j])

\* C8 witness: a record created with 4 of 10 works completed has been updated
\* to 5 and its balance of works is 5.
C8_Witness ==
  \E j \in DOMAIN store :
    /\ store[j].number_of_works = Whole(10)
    /\ store[j].works_completed = Whole(5)
    /\ store[j].balance_works = Whole(5)

\* Every PATCH on its way carries, for each field the user did not change, the
\* value of the task the modal was opened on.
UneditedSent(q) ==
  \A i \in DOMAIN q :
    \A key \in RawFields \ q[i].dirty : q[i].body[key] = q[i].task[key]

\* An update of the stored record the modal was opened on leaves every field
\* the user did not change as it was.
UneditedKept(i) ==
  (/\ tasksUpdate(i)
   /\ IndexOf(patches[i].sno) # {}
   /\ rawOf(stored(patches[i].sno)) = rawOf(patches[i].task))
    => \A j \in DOMAIN store :
         \A key \in RawFields \ patches[i].dirty :
           store[j].sno = patches[i].sno => store'[j][key] = store[j][key]

C10_BackendUnreachable ==
  \A i \in DOMAIN calls :
    /\ calls[i].fetches <= 1
    /\ calls[i].threw =>
         /\ calls[i].fetches = 1
         /\ calls[i].res.status = 502
         /\ calls[i].res.code = "BACKEND_UNREACHABLE"
         /\ calls[i].stage = "done" =>
              (calls[i].out.status = 502 /\ calls[i].out.code = "BACKEND_UNREACHABLE")
    /\ (calls[i].stage = "done" /\ calls[i].fetches = 0) =>
         calls[i].out.code \notin {"BACKEND_UNREACHABLE"}
    /\ {notAuthorized.code, loginRequired.code} \cap {unreachableResponse.code} = {}

\* C10 witness: a handler has answered a request whose fetch threw.
C10_Witness ==
  \E i \in DOMAIN calls :
    /\ calls[i].threw
    /\ calls[i].stage = "done"
    /\ calls[i].out.status = 502

\* The routes for tasks, summary and users: all but login and logout.
GuardedRoutes == Routes \ {"auth/login", "auth/logout"}

\* C11: a handler of a tasks, summary or users route that read no token
\* cookie has answered 401 NOT_AUTHORIZED without a fetch; one that read a
\* token makes at most one fetch, and has made exactly one, carrying that
\* token as the Bearer credential, once forwardRequest has returned.
C11_TokenGate ==
  \A i \in DOMAIN calls :
    calls[i].route \in GuardedRoutes =>
      /\ calls[i].fetches <= 1
      /\ calls[i].token = "" =>
           /\ calls[i].stage = "done"
           /\ calls[i].out.status = 401
           /\ calls[i].out.code = "NOT_AUTHORIZED"
           /\ calls[i].fetches = 0
      /\ (calls[i].token # "" /\ calls[i].stage \in {"return", "done"}) =>
           /\ calls[i].fetches = 1
           /\ calls[i].sent = calls[i].token

\* C11 witness: a handler that read the administrator's token has forwarded
\* its request once with that token and passed the backend's answer on.
C11_Witness ==
  \E j \in DOMAIN calls :
    /\ calls[j].route = "admin/summary"
    /\ calls[j].stage = "done"
    /\ calls[j].token = "jwt-admin"
    /\ calls[j].fetches = 1
    /\ calls[j].sent = "jwt-admin"
    /\ calls[j].out.status = 200

\* C12: every handler that answers with proxyJsonResponse(response) answers
\* with the status and the body (error code, role) of the response that
\* forwardRequest returned.
C12_WireFormatKept ==
  \A i \in DOMAIN calls :
    (/\ calls[i].stage = "done"
     /\ calls[i].fetches = 1
     /\ ~(calls[i].route = "auth/login" /\ ok(calls[i].res))) =>
      /\ calls[i].out.status = calls[i].res.status
      /\ calls[i].out.code = calls[i].res.code
      /\ calls[i].out.role = calls[i].res.role

\* The list at rest: no list request, update or delete under way, none due.
ListAtRest ==
  /\ page = "tasks"
  /\ ~reload
  /\ gets = <<>>
  /\ patches = <<>>
  /\ deletes = <<>>

C13_UpdatesShown ==
  ListAtRest =>
    \A i \in DOMAIN data.items :
      \A j \in IndexOf(data.items[i].sno) : store[j] = data.items[i]

\* A list at rest after an update that changed the record.
C13_UpdateWitness ==
  /\ ListAtRest
  /\ saves > 0
  /\ store # <<>>
  /\ store # <<ExampleRecord>>
  /\ data.items = store

\* The requests of a client that the backend has answered.
Answered(by) == {i \in DOMAIN gets : gets[i].by = by /\ gets[i].resp # NoData}

\* The stored records a filter selects: the sub_division filter is a
\* substring compared without case, the account_code filter is exact.
Selected(f) ==
  {i \in DOMAIN store :
     /\ f.sub_division = <<>>
          \/ contains(lower(store[i].sub_division), lower(f.sub_division))
     /\ f.account_code = "" \/ store[i].account_code = f.account_code}

\* The least number of pages of the given size that hold n items, at least 1.
Ceil(n, size) ==
  CHOOSE p \in 1..(n + 1) : p * size >= n /\ (p = 1 \/ (p - 1) * size < n)

\* C14: every list answer has total_items = the number of records the filter
\* selects and total_pages = ceil(total_items / page_size), at least 1; a
\* filter that selects nothing is answered with no items, total_items 0 and
\* total_pages 1.  The task list shows total_pages of its data, and 1 as long
\* as it has no data.
C14_TotalPages ==
  /\ \A i \in Answered("api") \cup Answered("list") :
       /\ gets[i].resp.total_items = Cardinality(Selected(gets[i].q.filter))
       /\ gets[i].resp.total_pages
            = Ceil(gets[i].resp.total_items, gets[i].resp.page_size)
       /\ gets[i].resp.total_pages >= 1
       /\ Selected(gets[i].q.filter) = {} =>
            /\ gets[i].resp.items = <<>>
            /\ gets[i].resp.total_items = 0
            /\ gets[i].resp.total_pages = 1
  /\ (page = "tasks" /\ data = NoData) => totalPages = 1
  /\ (page = "tasks" /\ data # NoData) =>
       totalPages = Ceil(data.total_items, data.page_size)

\* Three records asked for in pages of two: two pages.
C14_Witness ==
  \E i \in Answered("api") :
    /\ gets[i].q.page_size = 2
    /\ gets[i].resp.total_items = 3
    /\ gets[i].resp.total_pages = 2

\* C15: a page beyond the last is answered, not refused: with no items, the
\* page asked for, and total_items and total_pages as for any other page.
C15_PageBeyondLast ==
  \A i \in Answered("api") :
    gets[i].q.page > gets[i].resp.total_pages =>
      /\ gets[i].resp.items = <<>>
      /\ gets[i].resp.page = gets[i].q.page
      /\ gets[i].resp.total_items = Cardinality(Selected(gets[i].q.filter))
      /\ gets[i].resp.total_pages
           = Ceil(gets[i].resp.total_items, gets[i].resp.page_size)

\* Page 3 of three records in pages of two.
C15_Witness ==
  \E i \in Answered("api") :
    /\ gets[i].q.page = 3
    /\ gets[i].resp.total_pages = 2
    /\ gets[i].resp.total_items = 3
    /\ gets[i].resp.items = <<>>

\* C16: the page size served is within 1..500: 50 when the request leaves it
\* out, 500 when the request asks for more, the size asked for otherwise; no
\* answer has more items than that.  The task list asks for 25, 50, 100, 200
\* or 500 only.
C16_PageSize ==
  /\ \A i \in Answered("api") \cup Answered("list") :
       /\ gets[i].resp.page_size \in 1..500
       /\ gets[i].q.page_size = 0 => gets[i].resp.page_size = 50
       /\ gets[i].q.page_size > 500 => gets[i].resp.page_size = 500
       /\ gets[i].q.page_size \in 1..500 =>
            gets[i].resp.page_size = gets[i].q.page_size
       /\ Len(gets[i].resp.items) <= gets[i].resp.page_size
  /\ \A i \in DOMAIN gets :
       gets[i].by = "list" => gets[i].q.page_size \in {25, 50, 100, 200, 500}
  /\ page = "tasks" => query.page_size \in {25, 50, 100, 200, 500}

\* A request for 501 records a page served with 500.
C16_Witness ==
  \E i \in Answered("api") :
    gets[i].q.page_size = 501 /\ gets[i].resp.page_size = 500

\* The key a list is ordered by: the column asked for, sno for sno and for a
\* column the records do not have.
OrderKey(rec, sort_by) ==
  IF sort_by = "works_completed" THEN rec.works_completed.v ELSE rec.sno

\* C17: a list asked for in one page holds exactly the records its filter
\* selects, each once, in ascending or descending order of the sort column;
\* an unknown sort column orders them as sno does.
C17_Sorted ==
  \A i \in Answered("api") :
    (gets[i].q.page <= 1 /\ gets[i].q.page_size = 0) =>
      /\ Len(gets[i].resp.items) = Cardinality(Selected(gets[i].q.filter))
      /\ {gets[i].resp.items[k] : k \in DOMAIN gets[i].resp.items}
           = {store[j] : j \in Selected(gets[i].q.filter)}
      /\ \A k \in DOMAIN gets[i].resp.items : \A l \in DOMAIN gets[i].resp.items :
           k < l =>
             IF gets[i].q.order = "desc"
             THEN OrderKey(gets[i].resp.items[k], gets[i].q.sort_by)
                    >= OrderKey(gets[i].resp.items[l], gets[i].q.sort_by)
             ELSE OrderKey(gets[i].resp.items[k], gets[i].q.sort_by)
                    <= OrderKey(gets[i].resp.items[l], gets[i].q.sort_by)

\* Three records listed by an unknown column, descending: sno 3, 2, 1.
C17_Witness ==
  \E i \in Answered("api") :
    /\ gets[i].q.sort_by = "priority"
    /\ gets[i].q.order = "desc"
    /\ Len(gets[i].resp.items) = 3
    /\ gets[i].resp.items[1].sno = 3
    /\ gets[i].resp.items[3].sno = 1

\* The sum of a field over the stored records with the given indices.
RECURSIVE SumOver(_, _)
SumOver(S, field) ==
  IF S = {} THEN 0
  ELSE store[CHOOSE i \in S : TRUE][field].v
         + SumOver(S \ {CHOOSE i \in S : TRUE}, field)

\* The sum of a field over the totals of a set of groups.
RECURSIVE SumGroups(_, _)
SumGroups(G, field) ==
  IF G = {} THEN 0
  ELSE (CHOOSE g \in G : TRUE).totals[field].v
         + SumGroups(G \ {CHOOSE g \in G : TRUE}, field)

\* The selected records of one sub-division, and of one account code in it.
InGroup(f, sd) == {i \in Selected(f) : store[i].sub_division = sd}
InSubGroup(f, sd, ac) == {i \in InGroup(f, sd) : store[i].account_code = ac}

NotParsed(t) == IsBlank(t) \/ ~NumericText(t) \/ NegativeText(t)

\* The error map does not carry the cross-field message on the field.
WithoutMessage(e, key, text) == key \in DOMAIN e => e[key] # text

WorksCheckSkipped(f, e) ==
  (NotParsed(f.number_of_works) \/ NotParsed(f.works_completed)) =>
    WithoutMessage(e, "works_completed",
                   "Number of Works Completed cannot exceed Number of Works.")

AgreementCheckSkipped(f, e) ==
  (NotParsed(f.agreement_amount) \/ NotParsed(f.exp_upto_31_03_2025)) =>
    WithoutMessage(e, "exp_upto_31_03_2025",
                   "Expenditure up to 31-03-2025 must be <= Agreement Amount.")

\* C19: whenever handleSubmit or handleSave validates a form in which
\* number_of_works or works_completed (agreement_amount or
\* exp_upto_31_03_2025) is blank, not a number or negative, the error map does
\* not carry the cross-field message on works_completed (exp_upto_31_03_2025).
C19_CrossChecksSkipped ==
  [][/\ handleSubmit =>
          (WorksCheckSkipped(form, errors') /\ AgreementCheckSkipped(form, errors'))
     /\ handleSave =>
          (WorksCheckSkipped(taskForm, taskErrors')
             /\ AgreementCheckSkipped(taskForm, taskErrors'))]_vars

\* The part of C19 on the two amounts, which validation and payload both
\* read with Number().
C19_AgreementCheckSkipped ==
  [][/\ handleSubmit => AgreementCheckSkipped(form, errors')
     /\ handleSave => AgreementCheckSkipped(taskForm, taskErrors')]_vars

\* Some check of spec 4.1 fails for the contents of a form.
ChecksFail(f, subdivision) ==
  \/ ~ValidNumbers(f)
  \/ IsBlank(subdivision)
  \/ f.account_code \notin {"Spill", "New"}

\* No derived value has been computed.
NoneDerived(c) ==
  /\ c.balanceAmount = Null
  /\ c.totalYear = Null
  /\ c.totalValue = Null
  /\ c.balanceWorks = Null

\* C20: whenever some check fails for the current contents of the new-task
\* form or of the edit modal, none of the four derived values is computed
\* from them.
C20_DerivedOnlyIfValid ==
  /\ (page = "new-task" /\ ChecksFail(form, resolvedSubdivision(form, otherSubdivision)))
       => NoneDerived(formComputed)
  /\ (editing # NoTask /\ ChecksFail(taskForm, taskForm.sub_division))
       => NoneDerived(taskComputed)

\* What toggleStatus on a row does: nothing but the message for the
\* signed-in administrator's own active account, one PATCH carrying the
\* negation of the row's is_active for every other row.
ToggleEffect(row) ==
  IF row.username = cookieStore.username /\ row.is_active = 1
  THEN /\ statusPatches' = statusPatches
       /\ usersMessage' = "You cannot disable your own account."
  ELSE /\ Len(statusPatches') = Len(statusPatches) + 1
       /\ SubSeq(statusPatches', 1, Len(statusPatches)) = statusPatches
       /\ statusPatches'[Len(statusPatches')].username = row.username
       /\ statusPatches'[Len(statusPatches')].body.is_active = 1 - row.is_active

\* C21: toggleStatus on the row of the signed-in administrator's own active
\* account sends nothing and shows "You cannot disable your own account.";
\* on every other row it sends exactly one PATCH carrying the negation of the
\* row's is_active.  No status request under way disables the signed-in
\* administrator's account.
C21_OwnAccountKept ==
  [][/\ \A i \in DOMAIN users : toggleStatus(i) => ToggleEffect(users[i])
     /\ \A i \in DOMAIN statusPatches' :
          statusPatches'[i].username = cookieStore.username
            => statusPatches'[i].body.is_active = 1]_vars

\* The administrator has clicked the toggle of the own active account, after
\* having disabled another account.
C21_Witness ==
  /\ page = "users"
  /\ usersMessage = "You cannot disable your own account."
  /\ statusPatches = <<>>
  /\ \E i \in DOMAIN users :
       users[i].username = cookieStore.username /\ users[i].is_active = 1
  /\ \E i \in DOMAIN accounts :
       accounts[i].username = "clerk" /\ accounts[i].is_active = 0

\* The page request has ended with the page of its path rendered.
Rendered(segment) == request.stage = "rendered" /\ startsWith(pathname, segment)

\* The redirect that answered the k-th request of the navigation, if any.
RedirectedTo(k, to) == k < Len(request.trail) => request.trail[k + 1] = to

\* C22: a page under /admin is rendered only with a token cookie and the role
\* cookie admin, a page under /user only with token and role cookies; a
\* request for a page under /admin is redirected to /login when token or role
\* is missing and to /user/new-task when the role is not admin, and is not
\* redirected otherwise.
C22_PagesGuarded ==
  /\ Rendered("admin") => (cookieStore.token # "" /\ cookieStore.role = "admin")
  /\ Rendered("user") => (cookieStore.token # "" /\ cookieStore.role # "")
  /\ \A k \in DOMAIN request.trail :
       startsWith(request.trail[k], "admin") =>
         IF cookieStore.token = "" \/ cookieStore.role = ""
         THEN (k < Len(request.trail) \/ request.stage = "middleware")
                /\ RedirectedTo(k, LoginPage)
         ELSE IF cookieStore.role # "admin"
         THEN (k < Len(request.trail) \/ request.stage = "middleware")
                /\ RedirectedTo(k, NewTask)
         ELSE k = Len(request.trail)

\* A user who asked for /admin/tasks has been given /user/new-task.
C22_Witness ==
  /\ cookieStore.role = "user"
  /\ request.trail = <<AdminTasks, NewTask>>
  /\ request.stage = "rendered"

\* C23: following the redirects of the middleware and of the pages never
\* leads back to a path already asked for in the navigation, for any cookies
\* and any start path.
C23_NoRedirectCycle ==
  \A k \in DOMAIN request.trail : \A l \in DOMAIN request.trail :
    k < l => request.trail[k] # request.trail[l]

\* The part of C23 on the roles the backend issues: with the role cookie
\* absent, user or admin a page is rendered after at most one redirect.
C23_KnownRolesRender ==
  cookieStore.role \in {"", "user", "admin"} =>
    /\ Len(request.trail) <= 2
    /\ (Len(request.trail) = 2 => ~middleware(pathname, cookieStore).redirect)
    /\ request.stage = "page" => ~pageComponent(pathname, cookieStore).redirect

\* A login handler that answers without success: the payload was malformed,
\* or the backend refused the credentials.
FailedLogin(i) ==
  /\ calls'[i].route = "auth/login"
  /\ calls'[i].stage = "done"
  /\ ~ok(calls'[i].out)
  /\ (i \notin DOMAIN calls \/ calls[i].stage # "done")

\* C24: the token, role and username cookies are all cleared or are the three
\* values of one account, set by one successful login; a login that fails or
\* is malformed leaves the cookies as they are; and without the cookies, as
\* after a logout, the middleware redirects every request for a page under
\* /admin or /user to /login.
C24_CookiesTogether ==
  [][/\ cookieStore' \in {NoCookies, UserSession, AdminSession}
     /\ (cookieStore'.token = "" <=> cookieStore'.role = "")
     /\ (cookieStore'.token = "" <=> cookieStore'.username = "")
     /\ \A i \in DOMAIN calls' : FailedLogin(i) => cookieStore' = cookieStore
     /\ \A i \in DOMAIN calls' :
          (calls'[i].route = "auth/logout" /\ i \notin DOMAIN calls)
            => cookieStore' = NoCookies
     /\ (middlewareStep /\ cookieStore = NoCookies)
          => request'.trail[Len(request'.trail)] = LoginPage]_vars

\* Logged in as administrator, then logged out, then asked for /admin/tasks:
\* the login page is rendered.
C24_Witness ==
  /\ Len(calls) = 2
  /\ calls[1].route = "auth/login" /\ calls[1].stage = "done" /\ ok(calls[1].out)
  /\ calls[2].route = "auth/logout"
  /\ cookieStore = NoCookies
  /\ request.trail = <<AdminTasks, LoginPage>>
  /\ request.stage = "rendered"

\* C25: at most one POST /api/tasks of the new-task form is in flight: while
\* loading is true no second submission is sent, by the Submit button or by
\* the Enter key.
C25_OneSubmissionInFlight == Len(posts) <= 1

\* The message `Success. S. No: <sno>`, or "Success. Record submitted." for
\* sno = 0 (none returned).
SuccessMessage(sno) == [kind |-> "success", sno |-> sno, text |-> "Success."]

\* C26: when handleSubmit completes after a successful POST the message is the
\* success message with the returned S. No and the form fields are cleared;
\* when it completes after a failed POST the message is the server's error
\* text and the form fields are unchanged.
C26_MessageAfterSubmit ==
  [][\A i \in DOMAIN posts :
       (handleSubmitResponse(i) /\ posts[i].live) =>
         IF posts[i].resp.ok
         THEN /\ message' = SuccessMessage(posts[i].resp.sno)
              /\ form' = clearedForm(form, FALSE)
         ELSE /\ message'.text = resolveErrorMessage(posts[i].resp)
              /\ form' = form]_vars

\* The parts of C26 that hold: after a failed POST the message is the server's
\* error text and the form is unchanged; after a successful one the form is
\* cleared.
C26_FormAfterSubmit ==
  [][\A i \in DOMAIN posts :
       (handleSubmitResponse(i) /\ posts[i].live) =>
         IF posts[i].resp.ok
         THEN form' = clearedForm(form, FALSE)
         ELSE /\ message'.text = resolveErrorMessage(posts[i].resp)
              /\ form' = form]_vars

\* Request i is the one its screen issued last.
LastIssued(i) ==
  \A j \in DOMAIN gets : gets[j].by = gets[i].by => j <= i

C28_PageWithinResult ==
  /\ 1 <= query.page
  /\ query.page <= totalPages

\* The part of C28 that holds: the page requested is at least 1, and Prev and
\* Next leave it within the pages of the result shown when they are clicked.
C28_PageAtLeastOne ==
  /\ 1 <= query.page
  /\ [][\A step \in {-1, 1} :
          setPage(step) => (1 <= query'.page /\ query'.page <= totalPages)]_vars

\* The query parameters other than those of ks are as they were.
OthersKept(ks) == \A k \in DOMAIN query \ ks : query'[k] = query[k]

\* C29: a change of the sub-division, account-code, date-from, date-to,
\* sort-field, order or page-size control sets that parameter and sets page to
\* 1, and leaves every other query parameter as it was; Prev and Next change
\* page only.
C29_ControlsResetPage ==
  [][/\ \A key \in DOMAIN ControlValues :
          query'[key] # query[key] =>
            /\ query'.page = 1
            /\ OthersKept({key, "page"})
     /\ \A step \in {-1, 1} :
          (query'.page = query.page + step /\ query'.page # 1)
            => OthersKept({"page"})
     /\ (setPage(-1) \/ setPage(1)) => OthersKept({"page"})]_vars

\* The sort field was changed on page 2: the query is for page 1 while the
\* second page is still shown.
C29_Witness ==
  /\ page = "tasks"
  /\ data.page = 2
  /\ query.page = 1
  /\ query.sort_by = "works_completed"
  /\ query.page_size = data.page_size
  /\ reload

\* C30: the edit modal sends a PATCH only when its validation returns no
\* errors, and a save closes it only after onSave has reported success: when
\* validation fails nothing is sent and the modal stays as it is, and when the
\* PATCH fails the modal stays open with its form unchanged and saving false.
C30_SaveClosesOnSuccess ==
  [][/\ Len(patches') > Len(patches) => modalValidate(taskForm) = EmptyMap
     /\ (handleSave /\ modalValidate(taskForm) # EmptyMap) =>
          /\ patches' = patches
          /\ editing' = editing
          /\ taskForm' = taskForm
          /\ ~saving'
     /\ \A i \in DOMAIN patches :
          (handleSaveResponse(i) /\ patches[i].live /\ ~patches[i].resp.ok) =>
            /\ editing' = editing
            /\ editing # NoTask
            /\ taskForm' = taskForm
            /\ ~saving'
     /\ \A i \in DOMAIN patches :
          (handleSaveResponse(i) /\ editing # NoTask /\ editing' = NoTask)
            => patches[i].resp.ok]_vars

\* A PATCH of the open modal has failed: the modal is open with the form as
\* sent, not saving, and the error is shown.
C30_Witness ==
  /\ editing # NoTask
  /\ listError # ""
  /\ ~saving
  /\ patches = <<>>
  /\ saves > 0
  /\ modalValidate(taskForm) = EmptyMap
  /\ taskErrors = EmptyMap

====
